---- MODULE Spec2Model ----
(***************************************************************************)
(* vuku: an interactive assistant that stages files, optionally creates a  *)
(* branch, builds a Conventional-Commits message, commits and pushes.      *)
(*                                                                         *)
(* Two workflows are modelled over one state:                              *)
(*   impl = "single"   the single-file workflow of src/src/index.ts        *)
(*                     (generateCommitMessage and its helpers);            *)
(*   impl = "services" PromptService / GitService of src/src/services,     *)
(*                     sequenced in the order of the specification's       *)
(*                     section 4.3 (their caller is not among the sources).*)
(* Text is modelled as a sequence of characters (one-character strings; a  *)
(* glyph's code points are written "U+XXXX").                              *)
(***************************************************************************)
EXTENDS Integers, Sequences, FiniteSets, TLC

VARIABLES
    impl,           \* which workflow runs
    options,        \* program.opts(): [skipEmoji, detailed]
    tree,           \* working tree and index: file -> porcelain status
    head,           \* the branch that is checked out
    branches,       \* local branches
    remote,         \* branches published on origin
    commits,        \* commits created, in order: [branch, message, files]
    pc,             \* position of the run
    exitCode,       \* process.exitCode: 0 unless process.exit(1) was called
    currentBranch,  \* const currentBranch
    createBranch,   \* let createBranch / shouldCreateBranch
    unstagedFiles,  \* index.ts handleFileStaging: const unstagedFiles
    modifiedFiles,  \* PromptService.handleFileStaging: const modifiedFiles
    selected,       \* the checkbox answer selectedFiles
    pending,        \* index.ts: the git.add promises not yet settled
    answers,        \* the answers to the commit (and branch) questions
    branchFullName, \* the name handed to branch creation
    commitMessage,  \* let commitMessage
    isPublished,    \* result of isBranchPublished
    log             \* what the run did, in order: <<kind, what>>

vars == <<impl, options, tree, head, branches, remote, commits, pc, exitCode,
          currentBranch, createBranch, unstagedFiles, modifiedFiles, selected,
          pending, answers, branchFullName, commitMessage, isPublished, log>>

(***************************************************************************)
(* Bounds of the model.                                                    *)
(***************************************************************************)
NumFiles == 3
MaxLen == 1

Files == 1..NumFiles

(***************************************************************************)
(* Text helpers.                                                           *)
(***************************************************************************)
NL == "\n"

\* All texts of length at most n over the alphabet A.
RECURSIVE TextsUpTo(_, _)
TextsUpTo(A, n) ==
    IF n = 0 THEN {<<>>}
    ELSE LET shorter == TextsUpTo(A, n - 1)
         IN  shorter \cup {Append(t, c) : t \in shorter, c \in A}

\* The lines of a text: the text split at every line feed.
RECURSIVE SplitLines(_, _)
SplitLines(t, cur) ==
    IF t = <<>> THEN <<cur>>
    ELSE IF Head(t) = NL THEN <<cur>> \o SplitLines(Tail(t), <<>>)
    ELSE SplitLines(Tail(t), Append(cur, Head(t)))

Lines(t) == SplitLines(t, <<>>)

(***************************************************************************)
(* Program constants: the commit types, their glyphs, the branch types,    *)
(* the protected branches.                                                 *)
(***************************************************************************)
\* Each entry: the label shown in the list (glyphs as code points) and the
\* value the prompt answers with.
COMMIT_TYPES == <<
    [name  |-> <<"U+2728", " ", "f", "e", "a", "t", ":", " ", "A", " ", "n",
                 "e", "w", " ", "f", "e", "a", "t", "u", "r", "e">>,
     value |-> <<"f", "e", "a", "t">>],
    [name  |-> <<"U+1F41B", " ", "f", "i", "x", ":", " ", "A", " ", "b", "u",
                 "g", " ", "f", "i", "x">>,
     value |-> <<"f", "i", "x">>],
    [name  |-> <<"U+1F4DA", " ", "d", "o", "c", "s", ":", " ", "D", "o", "c",
                 "u", "m", "e", "n", "t", "a", "t", "i", "o", "n", " ", "o",
                 "n", "l", "y", " ", "c", "h", "a", "n", "g", "e", "s">>,
     value |-> <<"d", "o", "c", "s">>],
    [name  |-> <<"U+1F48E", " ", "s", "t", "y", "l", "e", ":", " ", "C", "h",
                 "a", "n", "g", "e", "s", " ", "t", "h", "a", "t", " ", "d",
                 "o", " ", "n", "o", "t", " ", "a", "f", "f", "e", "c", "t",
                 " ", "t", "h", "e", " ", "m", "e", "a", "n", "i", "n", "g",
                 " ", "o", "f", " ", "t", "h", "e", " ", "c", "o", "d", "e">>,
     value |-> <<"s", "t", "y", "l", "e">>],
    [name  |-> <<"U+267B", "U+FE0F", " ", "r", "e", "f", "a", "c", "t", "o",
                 "r", ":", " ", "A", " ", "c", "o", "d", "e", " ", "c", "h",
                 "a", "n", "g", "e", " ", "t", "h", "a", "t", " ", "n", "e",
                 "i", "t", "h", "e", "r", " ", "f", "i", "x", "e", "s", " ",
                 "a", " ", "b", "u", "g", " ", "n", "o", "r", " ", "a", "d",
                 "d", "s", " ", "a", " ", "f", "e", "a", "t", "u", "r", "e">>,
     value |-> <<"r", "e", "f", "a", "c", "t", "o", "r">>],
    [name  |-> <<"U+26A1", "U+FE0F", " ", "p", "e", "r", "f", ":", " ", "A",
                 " ", "c", "o", "d", "e", " ", "c", "h", "a", "n", "g", "e",
                 " ", "t", "h", "a", "t", " ", "i", "m", "p", "r", "o", "v",
                 "e", "s", " ", "p", "e", "r", "f", "o", "r", "m", "a", "n",
                 "c", "e">>,
     value |-> <<"p", "e", "r", "f">>],
    [name  |-> <<"U+1F9EA", " ", "t", "e", "s", "t", ":", " ", "A", "d", "d",
                 "i", "n", "g", " ", "m", "i", "s", "s", "i", "n", "g", " ",
                 "t", "e", "s", "t", "s", " ", "o", "r", " ", "c", "o", "r",
                 "r", "e", "c", "t", "i", "n", "g", " ", "e", "x", "i", "s",
                 "t", "i", "n", "g", " ", "t", "e", "s", "t", "s">>,
     value |-> <<"t", "e", "s", "t">>],
    [name  |-> <<"U+1F3D7", "U+FE0F", " ", "b", "u", "i", "l", "d", ":", " ",
                 "C", "h", "a", "n", "g", "e", "s", " ", "t", "h", "a", "t",
                 " ", "a", "f", "f", "e", "c", "t", " ", "t", "h", "e", " ",
                 "b", "u", "i", "l", "d", " ", "s", "y", "s", "t", "e", "m",
                 " ", "o", "r", " ", "e", "x", "t", "e", "r", "n", "a", "l",
                 " ", "d", "e", "p", "e", "n", "d", "e", "n", "c", "i", "e",
                 "s">>,
     value |-> <<"b", "u", "i", "l", "d">>],
    [name  |-> <<"U+1F477", " ", "c", "i", ":", " ", "C", "h", "a", "n", "g",
                 "e", "s", " ", "t", "o", " ", "C", "I", " ", "c", "o", "n",
                 "f", "i", "g", "u", "r", "a", "t", "i", "o", "n", " ", "f",
                 "i", "l", "e", "s", " ", "a", "n", "d", " ", "s", "c", "r",
                 "i", "p", "t", "s">>,
     value |-> <<"c", "i">>],
    [name  |-> <<"U+1F527", " ", "c", "h", "o", "r", "e", ":", " ", "O", "t",
                 "h", "e", "r", " ", "c", "h", "a", "n", "g", "e", "s", " ",
                 "t", "h", "a", "t", " ", "d", "o", "n", "'", "t", " ", "m",
                 "o", "d", "i", "f", "y", " ", "s", "r", "c", " ", "o", "r",
                 " ", "t", "e", "s", "t", " ", "f", "i", "l", "e", "s">>,
     value |-> <<"c", "h", "o", "r", "e">>],
    [name  |-> <<"U+23EA", " ", "r", "e", "v", "e", "r", "t", ":", " ", "R",
                 "e", "v", "e", "r", "t", "s", " ", "a", " ", "p", "r", "e",
                 "v", "i", "o", "u", "s", " ", "c", "o", "m", "m", "i", "t">>,
     value |-> <<"r", "e", "v", "e", "r", "t">>] >>

CommitTypeValues == {COMMIT_TYPES[i].value : i \in DOMAIN COMMIT_TYPES}

\* Faulty variant: the table has no entry for revert.
EMOJI_MAP_WithoutRevert ==
    (<<"f", "e", "a", "t">> :> <<"U+2728">>) @@
    (<<"f", "i", "x">> :> <<"U+1F41B">>) @@
    (<<"d", "o", "c", "s">> :> <<"U+1F4DA">>) @@
    (<<"s", "t", "y", "l", "e">> :> <<"U+1F48E">>) @@
    (<<"r", "e", "f", "a", "c", "t", "o", "r">> :> <<"U+267B", "U+FE0F">>) @@
    (<<"p", "e", "r", "f">> :> <<"U+26A1", "U+FE0F">>) @@
    (<<"t", "e", "s", "t">> :> <<"U+1F9EA">>) @@
    (<<"b", "u", "i", "l", "d">> :> <<"U+1F3D7", "U+FE0F">>) @@
    (<<"c", "i">> :> <<"U+1F477">>) @@
    (<<"c", "h", "o", "r", "e">> :> <<"U+1F527">>)

\* The table, keyed by its own keys.
EMOJI_MAP ==
    (<<"f", "e", "a", "t">> :> <<"U+2728">>) @@
    (<<"f", "i", "x">> :> <<"U+1F41B">>) @@
    (<<"d", "o", "c", "s">> :> <<"U+1F4DA">>) @@
    (<<"s", "t", "y", "l", "e">> :> <<"U+1F48E">>) @@
    (<<"r", "e", "f", "a", "c", "t", "o", "r">> :> <<"U+267B", "U+FE0F">>) @@
    (<<"p", "e", "r", "f">> :> <<"U+26A1", "U+FE0F">>) @@
    (<<"t", "e", "s", "t">> :> <<"U+1F9EA">>) @@
    (<<"b", "u", "i", "l", "d">> :> <<"U+1F3D7", "U+FE0F">>) @@
    (<<"c", "i">> :> <<"U+1F477">>) @@
    (<<"c", "h", "o", "r", "e">> :> <<"U+1F527">>) @@
    (<<"r", "e", "v", "e", "r", "t">> :> <<"U+23EA">>)

BRANCH_TYPES == <<
    <<"f", "e", "a", "t", "u", "r", "e">>,
    <<"b", "u", "g", "f", "i", "x">>,
    <<"h", "o", "t", "f", "i", "x">>,
    <<"r", "e", "l", "e", "a", "s", "e">>,
    <<"s", "u", "p", "p", "o", "r", "t">> >>

MAIN_BRANCHES == {<<"m", "a", "i", "n">>, <<"m", "a", "s", "t", "e", "r">>}

(***************************************************************************)
(* The answers record.  A question that was not asked leaves no key in the *)
(* record (the field reads as undefined).                                  *)
(***************************************************************************)
Truthy(a, k) == k \in DOMAIN a /\ a[k] # <<>>

\* `${EMOJI_MAP[answers.type]} `: a type without an entry prints "undefined".
EmojiOrUndefined(type) ==
    IF type \in DOMAIN EMOJI_MAP THEN EMOJI_MAP[type]
    ELSE <<"u", "n", "d", "e", "f", "i", "n", "e", "d">>

\* Faulty variant: the glyph is prepended whatever the option says.
EmojiPartAlways(a, o) == EmojiOrUndefined(a.type) \o <<" ">>

EmojiPart(a, o) ==
    IF o.skipEmoji THEN <<>> ELSE EmojiOrUndefined(a.type) \o <<" ">>

ScopePart(a) ==
    IF Truthy(a, "scope") THEN <<"(">> \o a.scope \o <<")">> ELSE <<>>

BreakingPart(a) == IF a.hasBreaking THEN <<"!">> ELSE <<>>

\* Faulty variant: the breaking mark is put before the scope.
HeaderLineMarkBeforeScope(a, o) ==
    EmojiPart(a, o) \o a.type \o BreakingPart(a) \o ScopePart(a)
        \o <<":", " ">> \o a.description

HeaderLine(a, o) ==
    EmojiPart(a, o) \o a.type \o ScopePart(a) \o BreakingPart(a)
        \o <<":", " ">> \o a.description

\* Faulty variant: the body is appended whether or not it is given.
BodyPartAlways(a) ==
    <<NL, NL>> \o (IF "body" \in DOMAIN a THEN a.body
                   ELSE <<"u", "n", "d", "e", "f", "i", "n", "e", "d">>)

BodyPart(a) ==
    IF Truthy(a, "body") THEN <<NL, NL>> \o a.body ELSE <<>>

\* Faulty variant: the footer follows a single line feed.
FooterPartNoBlankLine(a) ==
    IF Truthy(a, "footer") THEN <<NL>> \o a.footer ELSE <<>>

FooterPart(a) ==
    IF Truthy(a, "footer") THEN <<NL, NL>> \o a.footer ELSE <<>>

\* The commit message built from the answers and the options.
CommitMessage(a, o) == HeaderLine(a, o) \o BodyPart(a) \o FooterPart(a)

(***************************************************************************)
(* The repository as git and simple-git present it.  A file's state is its *)
(* two-letter porcelain status (index letter, working-tree letter).        *)
(***************************************************************************)
Clean == "  "

AllKinds == {Clean, "??", " M", " D", "A ", "M ", "D ", "AM", "MM"}

\* The files, in path order, whose status is one of K.
RECURSIVE ListFrom(_, _, _)
ListFrom(t, K, f) ==
    IF f > NumFiles THEN <<>>
    ELSE (IF t[f] \in K THEN <<f>> ELSE <<>>) \o ListFrom(t, K, f + 1)

ListOf(t, K) == ListFrom(t, K, 1)

\* The StatusResult of git.status(): one path may stand in several lists.
Status(t) ==
    [not_added |-> ListOf(t, {"??"}),
     modified  |-> ListOf(t, {" M", "M ", "MM", "AM"}),
     deleted   |-> ListOf(t, {" D", "D "}),
     staged    |-> ListOf(t, {"A ", "M ", "D ", "AM", "MM"}),
     created   |-> ListOf(t, {"A ", "AM"})]

\* The files with a change in the index.
Indexed(t) == {f \in Files : t[f] \in {"A ", "M ", "D ", "AM", "MM"}}

\* git add <file>
AddKind(k) ==
    CASE k = "??" -> "A "
      [] k = " M" -> "M "
      [] k = " D" -> "D "
      [] k = "AM" -> "A "
      [] k = "MM" -> "M "
      [] OTHER -> k

\* git reset HEAD <file>
ResetKind(k) ==
    CASE k = "A " -> "??"
      [] k = "M " -> " M"
      [] k = "D " -> " D"
      [] k = "AM" -> "??"
      [] k = "MM" -> " M"
      [] OTHER -> k

\* git commit: the index becomes the new HEAD, the working tree stays.
CommitKind(k) ==
    CASE k \in {"A ", "M ", "D "} -> Clean
      [] k \in {"AM", "MM"} -> " M"
      [] OTHER -> k

GitAdd(t, F) == [f \in Files |-> IF f \in F THEN AddKind(t[f]) ELSE t[f]]

GitReset(t, F) == [f \in Files |-> IF f \in F THEN ResetKind(t[f]) ELSE t[f]]

GitCommitTree(t) == [f \in Files |-> CommitKind(t[f])]

Range(s) == {s[i] : i \in DOMAIN s}

\* The subsequence of s whose elements are in S.
RECURSIVE Keep(_, _)
Keep(s, S) ==
    IF s = <<>> THEN <<>>
    ELSE (IF Head(s) \in S THEN <<Head(s)>> ELSE <<>>) \o Keep(Tail(s), S)

\* [...new Set(s)]: first occurrences, in order.
RECURSIVE Unique(_, _)
Unique(s, seen) ==
    IF s = <<>> THEN <<>>
    ELSE IF Head(s) \in seen THEN Unique(Tail(s), seen)
    ELSE <<Head(s)>> \o Unique(Tail(s), seen \cup {Head(s)})

(***************************************************************************)
(* Steps of a run: what is appended to the log, and where the run goes.    *)
(***************************************************************************)
Goto(p, entries) ==
    /\ pc' = p
    /\ exitCode' = exitCode
    /\ log' = log \o entries

\* process.exit(0)
Exit0(entries) ==
    /\ pc' = "exited"
    /\ exitCode' = 0
    /\ log' = log \o entries \o << <<"exit", "0">> >>

\* process.exit(1)
Exit1(entries) ==
    /\ pc' = "exited"
    /\ exitCode' = 1
    /\ log' = log \o entries \o << <<"exit", "1">> >>

\* The workflow function returns and the process ends by itself.
Return(entries) ==
    /\ pc' = "exited"
    /\ exitCode' = exitCode
    /\ log' = log \o entries

\* An exception leaves the workflow function.
Throw(entries) ==
    /\ pc' = "thrown"
    /\ exitCode' = exitCode
    /\ log' = log \o entries

YesNo(b) == IF b THEN "yes" ELSE "no"

\* The shouldCreateBranch confirm: its default, then the answer given.
OfferBranch(default, answer) ==
    << <<"default", "shouldCreateBranch", YesNo(default)>>,
       <<"prompt", "shouldCreateBranch", YesNo(answer)>> >>

\* index.ts: handleFileStaging() returned true; the branch decision is next.
StagingTrue(entries) ==
    Goto("branchDecision",
         entries \o << <<"return", "handleFileStaging", TRUE>> >>)

\* Faulty variant: a false result of handleFileStaging() does not end the run.
StagingFalseCarriesOn(entries) ==
    Goto("branchDecision",
         entries \o << <<"return", "handleFileStaging", FALSE>> >>)

\* index.ts: handleFileStaging() returned false: if (!filesStaged)
\* process.exit(0).
StagingFalse(entries) ==
    Exit0(entries \o << <<"return", "handleFileStaging", FALSE>> >>)

(***************************************************************************)
(* What the user and the repository may be, in a run of the model.         *)
(***************************************************************************)
\* `${branchType}/${branchName}`
Branch(type, name) == type \o <<"/">> \o name

Main == <<"m", "a", "i", "n">>
Master == <<"m", "a", "s", "t", "e", "r">>
Develop == <<"d", "e", "v", "e", "l", "o", "p">>
Feature == <<"f", "e", "a", "t", "u", "r", "e">>
Hotfix == <<"h", "o", "t", "f", "i", "x">>
Login == <<"l", "o", "g", "i", "n">>

InitBranches == {Main, Master, Develop, Branch(Feature, Login)}

InitRemote == {Main, Master, Branch(Feature, Login)}

\* The statuses a file starts a run with.
InitKinds == {Clean, "??", "A ", "M "}

BranchTypeAnswers == {Feature, Hotfix}

BranchNameAnswers == {Login}

ExampleAnswers ==
    [type        |-> <<"f", "e", "a", "t">>,
     scope       |-> <<"a", "u", "t", "h">>,
     description |-> <<"a", "d", "d", " ", "O", "A", "u", "t", "h", "2", " ",
                       "s", "u", "p", "p", "o", "r", "t">>,
     hasBreaking |-> FALSE,
     body        |-> <<"I", "m", "p", "l", "e", "m", "e", "n", "t", "e", "d",
                       " ", "O", "A", "u", "t", "h", "2", " ", "f", "l", "o",
                       "w">>,
     footer      |-> <<"C", "l", "o", "s", "e", "s", " ", "#", "1", "2", "3">>]

BasicAnswers ==
    {[type |-> <<"f", "i", "x">>, description |-> <<"x">>, hasBreaking |-> TRUE]}

DetailedAnswers == {ExampleAnswers}

NoAnswers == [type |-> <<>>, description |-> <<>>, hasBreaking |-> FALSE]

\* Faulty variant: the optional fields are asked for in either mode.
CommitPromptsAll(detailed) ==
    << <<"prompt", "type">>, <<"prompt", "scope">>,
       <<"prompt", "description">>, <<"prompt", "hasBreaking">>,
       <<"prompt", "body">>, <<"prompt", "footer">> >>

\* The prompts of the commit questions, in the order they are asked.
CommitPrompts(detailed) ==
    << <<"prompt", "type">> >>
    \o (IF detailed THEN << <<"prompt", "scope">> >> ELSE <<>>)
    \o << <<"prompt", "description">>, <<"prompt", "hasBreaking">> >>
    \o (IF detailed THEN << <<"prompt", "body">>, <<"prompt", "footer">> >>
        ELSE <<>>)

BranchPrompts == << <<"prompt", "branchType">>, <<"prompt", "branchName">> >>

IsOnMainBranch == currentBranch \in MAIN_BRANCHES

(***************************************************************************)
(* The single-file workflow: src/src/index.ts.                             *)
(***************************************************************************)
\* Faulty variant: the file staging is skipped.
AfterCurrentBranchSkipsStaging == "branchDecision"

\* generateCommitMessage(): "Check and handle file staging first".
AfterCurrentBranch == "staging"

\* getCurrentBranch(), as generateCommitMessage first calls it.
GetCurrentBranch ==
    /\ impl = "single" /\ pc = "start"
    /\ \E ok \in BOOLEAN :
          IF ok
          THEN /\ currentBranch' = head
               /\ Goto(AfterCurrentBranch, << <<"git", "status">> >>)
          ELSE /\ currentBranch' = currentBranch
               /\ Exit1(<< <<"git", "status">>, <<"fail", "status">>,
                           <<"error", "Error getting current branch">> >>)
    /\ UNCHANGED <<impl, options, tree, head, branches, remote, commits,
                   createBranch, unstagedFiles, modifiedFiles, selected,
                   pending, answers, branchFullName, commitMessage,
                   isPublished>>

\* handleFileStaging() up to its first prompt; a false result ends the run
\* with process.exit(0) in generateCommitMessage.  The log keeps which files
\* the status query reported as staged or created.
HandleFileStaging ==
    /\ impl = "single" /\ pc = "staging"
    /\ \E ok \in BOOLEAN :
          IF ~ok
          THEN /\ unstagedFiles' = unstagedFiles
               /\ StagingFalse(<< <<"call", "handleFileStaging">>,
                                  <<"git", "status">>, <<"fail", "status">>,
                                  <<"error", "Error staging files">> >>)
          ELSE LET status == Status(tree)
                   unstaged == status.not_added \o status.modified
                                   \o status.deleted
                   stagedFiles == status.staged \o status.created
                   queried == << <<"call", "handleFileStaging">>,
                                 <<"git", "status">>,
                                 <<"status", "staged", Range(stagedFiles)>> >>
               IN  /\ unstagedFiles' = unstaged
                   /\ IF Len(unstaged) = 0
                      THEN IF Len(stagedFiles) = 0
                           THEN StagingFalse(
                                    queried \o
                                    << <<"print", "No files to commit">> >>)
                           ELSE StagingTrue(queried)
                      ELSE Goto("stagingAction", queried)
    /\ UNCHANGED <<impl, options, tree, head, branches, remote, commits,
                   currentBranch, createBranch, modifiedFiles, selected,
                   pending, answers, branchFullName, commitMessage,
                   isPublished>>

\* handleFileStaging(): the action prompt, and `git add .` when chosen.
StagingAction ==
    /\ impl = "single" /\ pc = "stagingAction"
    /\ \E action \in {"select", "all", "cancel"} :
          LET asked == << <<"prompt", "action", action>> >>
          IN  CASE action = "cancel" ->
                     /\ tree' = tree
                     /\ StagingFalse(asked)
                [] action = "all" ->
                     \E ok \in BOOLEAN :
                        IF ok
                        THEN /\ tree' = GitAdd(tree, Files)
                             /\ StagingTrue(
                                     asked \o << <<"git", "add .">> >>)
                        ELSE /\ tree' = tree
                             /\ StagingFalse(asked \o
                                   << <<"git", "add .">>, <<"fail", "add">>,
                                      <<"error", "Error staging files">> >>)
                [] action = "select" ->
                     /\ tree' = tree
                     /\ Goto("stagingSelect", asked)
    /\ UNCHANGED <<impl, options, head, branches, remote, commits,
                   currentBranch, createBranch, unstagedFiles, modifiedFiles,
                   selected, pending, answers, branchFullName, commitMessage,
                   isPublished>>

\* handleFileStaging(): the checkbox over the unstaged files; every selected
\* file's git.add is dispatched at once (Promise.all over map).
StagingSelect ==
    /\ impl = "single" /\ pc = "stagingSelect"
    /\ \E sel \in SUBSET Range(unstagedFiles) :
          LET selectedFiles == Keep(unstagedFiles, sel)
              asked == << <<"prompt", "selectedFiles", selectedFiles>> >>
          IN  /\ selected' = selectedFiles
              /\ IF Len(selectedFiles) = 0
                 THEN /\ pending' = pending
                      /\ StagingFalse(
                             asked \o << <<"print", "No files selected">> >>)
                 ELSE /\ pending' = sel
                      /\ Goto("stagingAdds",
                              asked \o [i \in DOMAIN selectedFiles |->
                                          <<"git", "add", selectedFiles[i]>>])
    /\ UNCHANGED <<impl, options, tree, head, branches, remote, commits,
                   currentBranch, createBranch, unstagedFiles, modifiedFiles,
                   answers, branchFullName, commitMessage, isPublished>>

\* Faulty variant: the group is taken as done when its first add is
\* (Promise.race in place of Promise.all).
AllSettledFirstOnly(waiting) == TRUE

\* Promise.all resolves when none of its promises is pending any more.
AllSettled(waiting) == waiting = {}

\* One dispatched git.add settles (the calls were logged when dispatched; the
\* order in which they settle leaves no trace).  Promise.all resolves when
\* the last one has; it rejects with the first failure, and the catch
\* block's false makes the caller exit at once, whatever has become of the
\* adds still running.
AddSettles ==
    /\ impl = "single" /\ pc = "stagingAdds"
    /\ \E f \in pending, ok \in BOOLEAN :
          IF ok
          THEN /\ tree' = GitAdd(tree, {f})
               /\ pending' = pending \ {f}
               /\ IF AllSettled(pending')
                  THEN StagingTrue(<<>>)
                  ELSE Goto("stagingAdds", <<>>)
          ELSE \E done \in SUBSET (pending \ {f}) :
                  /\ tree' = GitAdd(tree, done)
                  /\ pending' = {}
                  /\ StagingFalse(<< <<"fail", "add">>,
                                     <<"error", "Error staging files">> >>)
    /\ UNCHANGED <<impl, options, head, branches, remote, commits,
                   currentBranch, createBranch, unstagedFiles, modifiedFiles,
                   selected, answers, branchFullName, commitMessage,
                   isPublished>>

\* Faulty variant: declining the direct commit does not end the run.
DeclinedDirectCommitCarriesOn(entries) == Goto("questions", entries)

\* generateCommitMessage(): if (!confirmContinue) the run is cancelled.
DeclinedDirectCommit(entries) ==
    Exit0(entries \o << <<"print", "Operation cancelled">> >>)

\* generateCommitMessage(): the branch decision.
BranchDecision ==
    /\ impl = "single" /\ pc = "branchDecision"
    /\ \E shouldCreateBranch \in BOOLEAN, confirmContinue \in BOOLEAN :
          LET asked(default) == OfferBranch(default, shouldCreateBranch)
              second == << <<"prompt", "confirmContinue",
                             YesNo(confirmContinue)>> >>
          IN  IF IsOnMainBranch
              THEN IF ~shouldCreateBranch
                   THEN IF ~confirmContinue
                        THEN /\ createBranch' = createBranch
                             /\ DeclinedDirectCommit(
                                    << <<"print", "warning">> >> \o asked(TRUE)
                                    \o second)
                        ELSE /\ createBranch' = shouldCreateBranch
                             /\ Goto("questions",
                                     << <<"print", "warning">> >> \o asked(TRUE)
                                     \o second)
                   ELSE /\ confirmContinue
                        /\ createBranch' = shouldCreateBranch
                        /\ Goto("questions",
                                << <<"print", "warning">> >> \o asked(TRUE))
              ELSE /\ confirmContinue
                   /\ createBranch' = shouldCreateBranch
                   /\ Goto("questions", asked(FALSE))
    /\ UNCHANGED <<impl, options, tree, head, branches, remote, commits,
                   currentBranch, unstagedFiles, modifiedFiles, selected,
                   pending, answers, branchFullName, commitMessage,
                   isPublished>>

\* generateCommitMessage(): inquirer.prompt(questions), the branch questions
\* (when a branch is to be created) and the commit questions in one go.
Questions ==
    /\ impl = "single" /\ pc = "questions"
    /\ \E a \in (IF options.detailed THEN DetailedAnswers ELSE BasicAnswers),
          bt \in BranchTypeAnswers, bn \in BranchNameAnswers :
          IF createBranch
          THEN /\ answers' = a @@ [branchType |-> bt, branchName |-> bn]
               /\ Goto("checkout",
                       BranchPrompts \o CommitPrompts(options.detailed))
          ELSE /\ bt = Feature
               /\ answers' = a
               /\ Goto("preview", CommitPrompts(options.detailed))
    /\ UNCHANGED <<impl, options, tree, head, branches, remote, commits,
                   currentBranch, createBranch, unstagedFiles, modifiedFiles,
                   selected, pending, branchFullName, commitMessage,
                   isPublished>>

\* git checkout -b: fails when the branch exists, or for git's own reasons.
CheckoutMayFail(name) == IF name \in branches THEN {FALSE} ELSE BOOLEAN

\* Faulty variant: a failed branch creation is reported and the run goes on.
CheckoutFailedCarriesOn ==
    Goto("preview",
         << <<"git", "checkoutLocalBranch">>, <<"fail", "checkoutLocalBranch">>,
            <<"error", "Error creating branch">> >>)

\* generateCommitMessage(): git.checkoutLocalBranch(branchFullName).
CheckoutFailed ==
    Return(<< <<"git", "checkoutLocalBranch">>, <<"fail", "checkoutLocalBranch">>,
              <<"error", "Error creating branch">> >>)

Checkout ==
    /\ impl = "single" /\ pc = "checkout"
    /\ LET name == Branch(answers.branchType, answers.branchName)
       IN  /\ branchFullName' = name
           /\ \E ok \in CheckoutMayFail(name) :
                 IF ok
                 THEN /\ head' = name
                      /\ branches' = branches \cup {name}
                      /\ Goto("preview", << <<"git", "checkoutLocalBranch">> >>)
                 ELSE /\ UNCHANGED <<head, branches>>
                      /\ CheckoutFailed
    /\ UNCHANGED <<impl, options, tree, remote, commits, currentBranch,
                   createBranch, unstagedFiles, modifiedFiles, selected,
                   pending, answers, commitMessage, isPublished>>

\* Faulty variant: the commit is submitted whatever the preview's answer.
PreviewDeclinedCommits == Goto("commit", << <<"prompt", "confirm", "no">> >>)

\* generateCommitMessage(): if (confirm) is false, nothing is left to do.
PreviewDeclined == Return(<< <<"prompt", "confirm", "no">> >>)

\* generateCommitMessage(): the message is built and previewed.
Preview ==
    /\ impl = "single" /\ pc = "preview"
    /\ commitMessage' = CommitMessage(answers, options)
    /\ \E confirm \in BOOLEAN :
          IF confirm
          THEN Goto("commit", << <<"prompt", "confirm", "yes">> >>)
          ELSE PreviewDeclined
    /\ UNCHANGED <<impl, options, tree, head, branches, remote, commits,
                   currentBranch, createBranch, unstagedFiles, modifiedFiles,
                   selected, pending, answers, branchFullName, isPublished>>

\* Faulty variant: a failed commit is followed by unstaging everything.
CommitEffectUnstagesOnFailure(ok, message) ==
    IF ok /\ Indexed(tree) # {}
    THEN /\ commits' = Append(commits, [branch |-> head, message |-> message,
                                        files |-> Indexed(tree)])
         /\ tree' = GitCommitTree(tree)
    ELSE /\ commits' = commits
         /\ tree' = GitReset(tree, Files)

\* git commit -m: with an empty index git creates nothing (simple-git does
\* not always report that as an error); hooks may reject the commit.
CommitEffect(ok, message) ==
    IF ok /\ Indexed(tree) # {}
    THEN /\ commits' = Append(commits, [branch |-> head, message |-> message,
                                        files |-> Indexed(tree)])
         /\ tree' = GitCommitTree(tree)
    ELSE UNCHANGED <<commits, tree>>

\* Faulty variant: the push question follows a failed commit as well.
CommitFailedAsksPush ==
    Goto("pushPrompt", << <<"git", "commit">>, <<"fail", "commit">>,
                          <<"error", "Error creating commit">> >>)

\* generateCommitMessage(): a failed commit is reported and the function
\* returns.
CommitFailed ==
    Return(<< <<"git", "commit">>, <<"fail", "commit">>,
              <<"error", "Error creating commit">> >>)

Commit ==
    /\ impl = "single" /\ pc = "commit"
    /\ \E ok \in BOOLEAN :
          /\ CommitEffect(ok, commitMessage)
          /\ IF ok
             THEN Goto("pushPrompt", << <<"git", "commit">>,
                                        <<"print", "Successfully created commit">> >>)
             ELSE CommitFailed
    /\ UNCHANGED <<impl, options, head, branches, remote, currentBranch,
                   createBranch, unstagedFiles, modifiedFiles, selected,
                   pending, answers, branchFullName, commitMessage,
                   isPublished>>

\* generateCommitMessage(): "Would you like to push this branch?"
PushPrompt ==
    /\ impl = "single" /\ pc = "pushPrompt"
    /\ \E shouldPush \in BOOLEAN :
          IF shouldPush
          THEN Goto("push", << <<"prompt", "shouldPush", "yes">> >>)
          ELSE Return(<< <<"prompt", "shouldPush", "no">> >>)
    /\ UNCHANGED <<impl, options, tree, head, branches, remote, commits,
                   currentBranch, createBranch, unstagedFiles, modifiedFiles,
                   selected, pending, answers, branchFullName, commitMessage,
                   isPublished>>

\* generateCommitMessage(): a failed push is reported and the function
\* returns.
PushFailed ==
    Return(<< <<"git", "status">>, <<"git", "push", "origin">>,
              <<"fail", "push">>, <<"error", "Error pushing branch">> >>)

\* generateCommitMessage(): getCurrentBranch() again, then git.push.
Push ==
    /\ impl = "single" /\ pc = "push"
    /\ \E statusOk \in BOOLEAN, ok \in BOOLEAN :
          IF ~statusOk
          THEN /\ ok
               /\ remote' = remote
               /\ Exit1(<< <<"git", "status">>, <<"fail", "status">>,
                           <<"error", "Error getting current branch">> >>)
          ELSE IF ok
               THEN /\ remote' = remote \cup {head}
                    /\ Return(<< <<"git", "status">>,
                                 <<"git", "push", "origin">>,
                                 <<"print", "Successfully pushed">> >>)
               ELSE /\ remote' = remote
                    /\ PushFailed
    /\ UNCHANGED <<impl, options, tree, head, branches, commits,
                   currentBranch, createBranch, unstagedFiles, modifiedFiles,
                   selected, pending, answers, branchFullName, commitMessage,
                   isPublished>>

(***************************************************************************)
(* The services: src/src/services/git.ts and src/src/services/prompt.ts.   *)
(* Which method follows which is the specification's section 4.3           *)
(* (OrchestratorNext); what each method does is its code.                  *)
(***************************************************************************)
IsPrefix(p, s) == Len(p) <= Len(s) /\ SubSeq(s, 1, Len(p)) = p

\* The workflow's next position once a step has returned `result`.
OrchestratorNext(step, result) ==
    CASE step = "getCurrentBranch" -> "svcBranchCreation"
      [] step = "promptForBranchCreation" ->
            IF result THEN "svcBranchDetails" ELSE "svcStaging"
      [] step = "promptForBranchDetails" -> "svcCreateBranch"
      [] step = "createBranch" -> "svcStaging"
      [] step = "handleFileStaging" ->
            IF result THEN "svcCommitDetails" ELSE "exit0"
      [] step = "promptForCommitDetails" -> "svcCommit"
      [] step = "commit" -> "svcPushPrompt"
      [] step = "promptForPush" -> IF result THEN "svcPush" ELSE "return"
      [] step = "push" -> "return"

\* The step returns `result` to the workflow.
Returns(step, result, entries) ==
    LET next == OrchestratorNext(step, result)
        done == entries \o << <<"return", step, result>> >>
    IN  CASE next = "exit0" -> Exit0(done)
          [] next = "return" -> Return(done)
          [] OTHER -> Goto(next, done)

\* formatBranchName: lower-cased name behind the type and a slash.
UpperCase == <<"A", "B", "C", "D", "E", "F", "G", "H", "I", "J", "K", "L", "M",
               "N", "O", "P", "Q", "R", "S", "T", "U", "V", "W", "X", "Y", "Z">>

LowerCase == <<"a", "b", "c", "d", "e", "f", "g", "h", "i", "j", "k", "l", "m",
               "n", "o", "p", "q", "r", "s", "t", "u", "v", "w", "x", "y", "z">>

ToLower(c) ==
    IF \E i \in DOMAIN UpperCase : UpperCase[i] = c
    THEN LowerCase[CHOOSE i \in DOMAIN UpperCase : UpperCase[i] = c]
    ELSE c

IsSpace(c) == c \in {" ", "\t", NL}

\* Lower-case, every run of whitespace replaced by one hyphen.
RECURSIVE Normalize(_)
Normalize(name) ==
    IF name = <<>> THEN <<>>
    ELSE IF IsSpace(Head(name))
    THEN IF Len(name) > 1 /\ IsSpace(name[2])
         THEN Normalize(Tail(name))
         ELSE <<"-">> \o Normalize(Tail(name))
    ELSE <<ToLower(Head(name))>> \o Normalize(Tail(name))

FormatBranchName(type, name) == type \o <<"/">> \o Normalize(name)

\* formatCommitMessage of the formatter service.
FormatCommitMessage(a, o) == CommitMessage(a, o)

\* GitService.getCurrentBranch
SvcGetCurrentBranch ==
    /\ impl = "services" /\ pc = "start"
    /\ \E ok \in BOOLEAN :
          IF ok
          THEN /\ currentBranch' = head
               /\ Returns("getCurrentBranch", TRUE, << <<"git", "status">> >>)
          ELSE /\ currentBranch' = currentBranch
               /\ Exit1(<< <<"git", "status">>, <<"fail", "status">>,
                           <<"error", "Error getting current branch">> >>)
    /\ UNCHANGED <<impl, options, tree, head, branches, remote, commits,
                   createBranch, unstagedFiles, modifiedFiles, selected,
                   pending, answers, branchFullName, commitMessage,
                   isPublished>>

\* Faulty variant: no branch counts as a feature branch.
IsOnFeatureBranchNever(branch) == FALSE

\* promptForBranchCreation: const isOnFeatureBranch.
IsOnFeatureBranch(branch) ==
    \E i \in DOMAIN BRANCH_TYPES :
        \/ IsPrefix(BRANCH_TYPES[i] \o <<"/">>, branch)
        \/ IsPrefix(BRANCH_TYPES[i] \o <<"-">>, branch)

\* PromptService.promptForBranchCreation
PromptForBranchCreation ==
    /\ impl = "services" /\ pc = "svcBranchCreation"
    /\ \E shouldCreateBranch \in BOOLEAN, confirmContinue \in BOOLEAN :
          LET asked(default) == OfferBranch(default, shouldCreateBranch)
              second == << <<"prompt", "confirmContinue",
                             YesNo(confirmContinue)>> >>
              warned == << <<"print", "warning">> >>
          IN  IF IsOnFeatureBranch(currentBranch)
              THEN /\ ~shouldCreateBranch /\ confirmContinue
                   /\ createBranch' = FALSE
                   /\ Returns("promptForBranchCreation", FALSE, <<>>)
              ELSE IF currentBranch \in MAIN_BRANCHES
              THEN IF ~shouldCreateBranch
                   THEN IF ~confirmContinue
                        THEN /\ createBranch' = createBranch
                             /\ Exit0(warned \o asked(TRUE) \o second \o
                                      << <<"print", "Operation cancelled">> >>)
                        ELSE /\ createBranch' = shouldCreateBranch
                             /\ Returns("promptForBranchCreation",
                                        shouldCreateBranch,
                                        warned \o asked(TRUE) \o second)
                   ELSE /\ confirmContinue
                        /\ createBranch' = shouldCreateBranch
                        /\ Returns("promptForBranchCreation",
                                   shouldCreateBranch, warned \o asked(TRUE))
              ELSE /\ confirmContinue
                   /\ createBranch' = shouldCreateBranch
                   /\ Returns("promptForBranchCreation", shouldCreateBranch,
                              asked(FALSE))
    /\ UNCHANGED <<impl, options, tree, head, branches, remote, commits,
                   currentBranch, unstagedFiles, modifiedFiles, selected,
                   pending, answers, branchFullName, commitMessage,
                   isPublished>>

\* PromptService.promptForBranchDetails; the name is then formatted.
PromptForBranchDetails ==
    /\ impl = "services" /\ pc = "svcBranchDetails"
    /\ \E bt \in BranchTypeAnswers, bn \in BranchNameAnswers :
          /\ branchFullName' = FormatBranchName(bt, bn)
          /\ Returns("promptForBranchDetails", TRUE, BranchPrompts)
    /\ UNCHANGED <<impl, options, tree, head, branches, remote, commits,
                   currentBranch, createBranch, unstagedFiles, modifiedFiles,
                   selected, pending, answers, commitMessage, isPublished>>

\* GitService.createBranch
CreateBranch ==
    /\ impl = "services" /\ pc = "svcCreateBranch"
    /\ \E ok \in CheckoutMayFail(branchFullName) :
          IF ok
          THEN /\ head' = branchFullName
               /\ branches' = branches \cup {branchFullName}
               /\ Returns("createBranch", TRUE,
                          << <<"git", "checkoutLocalBranch">> >>)
          ELSE /\ UNCHANGED <<head, branches>>
               /\ Exit1(<< <<"git", "checkoutLocalBranch">>,
                           <<"fail", "checkoutLocalBranch">>,
                           <<"error", "Error creating branch">> >>)
    /\ UNCHANGED <<impl, options, tree, remote, commits, currentBranch,
                   createBranch, unstagedFiles, modifiedFiles, selected,
                   pending, answers, branchFullName, commitMessage,
                   isPublished>>

\* Faulty variant: the duplicates among the status lists are kept.
GetAllModifiedFilesNoDedup(status) ==
    LET stagedFiles == Range(status.staged \o status.created)
        allFiles == status.not_added \o status.modified \o status.deleted
                        \o status.staged \o status.created
    IN  [i \in DOMAIN allFiles |->
            [file |-> allFiles[i], staged |-> allFiles[i] \in stagedFiles]]

\* GitService.getAllModifiedFiles, on the StatusResult it was given.
GetAllModifiedFiles(status) ==
    LET stagedList == Unique(status.staged \o status.created, {})
        stagedFiles == Range(stagedList)
        modifiedStaged == {f \in Range(status.modified) :
                              f \in Range(status.staged)}
        allFiles == status.not_added \o status.modified \o status.deleted
                        \o stagedList
        uniqueFiles == Unique(allFiles, {})
    IN  [i \in DOMAIN uniqueFiles |->
            [file   |-> uniqueFiles[i],
             staged |-> uniqueFiles[i] \in stagedFiles
                            \/ uniqueFiles[i] \in modifiedStaged]]

\* modifiedFiles.filter(f => f.staged) and its complement, as file lists.
RECURSIVE FilesWhere(_, _)
FilesWhere(ms, flag) ==
    IF ms = <<>> THEN <<>>
    ELSE (IF Head(ms).staged = flag THEN <<Head(ms).file>> ELSE <<>>)
             \o FilesWhere(Tail(ms), flag)

StagedOf(ms) == FilesWhere(ms, TRUE)

UnstagedOf(ms) == FilesWhere(ms, FALSE)

AllOf(ms) == [i \in DOMAIN ms |-> ms[i].file]

\* PromptService.handleFileStaging, up to its first prompt.
SvcHandleFileStaging ==
    /\ impl = "services" /\ pc = "svcStaging"
    /\ \E ok \in BOOLEAN :
          IF ~ok
          THEN /\ modifiedFiles' = modifiedFiles
               /\ Throw(<< <<"call", "handleFileStaging">>,
                           <<"git", "status">>, <<"fail", "status">> >>)
          ELSE LET files == GetAllModifiedFiles(Status(tree))
               IN  /\ modifiedFiles' = files
                   /\ IF Len(files) = 0
                      THEN Returns("handleFileStaging", FALSE,
                                   << <<"call", "handleFileStaging">>,
                                      <<"git", "status">>,
                                      <<"print", "No files to commit">> >>)
                      ELSE IF Len(UnstagedOf(files)) = 0
                      THEN Returns("handleFileStaging", TRUE,
                                   << <<"call", "handleFileStaging">>,
                                      <<"git", "status">> >>)
                      ELSE Goto("svcStagingAction",
                                << <<"call", "handleFileStaging">>,
                                   <<"git", "status">> >>)
    /\ UNCHANGED <<impl, options, tree, head, branches, remote, commits,
                   currentBranch, createBranch, unstagedFiles, selected,
                   pending, answers, branchFullName, commitMessage,
                   isPublished>>

\* The choices of the action prompt.
ActionChoices(ms) ==
    (IF Len(StagedOf(ms)) > 0 THEN {"proceed"} ELSE {})
        \cup {"select", "all", "cancel"}

\* PromptService.handleFileStaging: the action prompt; stageAllFiles.
SvcStagingAction ==
    /\ impl = "services" /\ pc = "svcStagingAction"
    /\ \E action \in ActionChoices(modifiedFiles) :
          LET asked == << <<"prompt", "action", action>> >>
          IN  CASE action = "cancel" ->
                     /\ tree' = tree
                     /\ Returns("handleFileStaging", FALSE, asked)
                [] action = "proceed" ->
                     /\ tree' = tree
                     /\ Returns("handleFileStaging", TRUE, asked)
                [] action = "all" ->
                     \E ok \in BOOLEAN :
                        IF ok
                        THEN /\ tree' = GitAdd(tree, Files)
                             /\ Returns("handleFileStaging", TRUE,
                                        asked \o << <<"git", "add .">> >>)
                        ELSE /\ tree' = tree
                             /\ Throw(asked \o << <<"git", "add .">>,
                                                  <<"fail", "add">> >>)
                [] action = "select" ->
                     /\ tree' = tree
                     /\ Goto("svcStagingSelect", asked)
    /\ UNCHANGED <<impl, options, head, branches, remote, commits,
                   currentBranch, createBranch, unstagedFiles, modifiedFiles,
                   selected, pending, answers, branchFullName, commitMessage,
                   isPublished>>

\* The checkbox's choices with `checked: file.staged`.
Checked(ms) == {ms[i].file : i \in {j \in DOMAIN ms : ms[j].staged}}

\* PromptService.handleFileStaging: the checkbox over all modified files,
\* shown with its pre-checked choices; the user may leave any of them checked.
SvcStagingSelect ==
    /\ impl = "services" /\ pc = "svcStagingSelect"
    /\ \E sel \in SUBSET Range(AllOf(modifiedFiles)) :
          /\ selected' = Keep(AllOf(modifiedFiles), sel)
          /\ Goto("svcReconcile",
                  << <<"checked", "selectedFiles", Checked(modifiedFiles)>>,
                     <<"prompt", "selectedFiles", selected'>> >>)
    /\ UNCHANGED <<impl, options, tree, head, branches, remote, commits,
                   currentBranch, createBranch, unstagedFiles, modifiedFiles,
                   pending, answers, branchFullName, commitMessage,
                   isPublished>>

\* Faulty variant: every selected file is staged again.
FilesToStageAllSelected(selectedFiles, stagedFiles) == selectedFiles

\* selectedFiles.filter(file => !stagedFiles.find(f => f.file === file))
FilesToStage(selectedFiles, stagedFiles) ==
    Keep(selectedFiles, Range(selectedFiles) \ Range(stagedFiles))

\* Faulty variant: the negation is lost, the files still checked are unstaged.
FilesToUnstageChecked(selectedFiles, stagedFiles) ==
    Keep(stagedFiles, Range(selectedFiles))

\* stagedFiles.filter(f => !selectedFiles.includes(f.file))
FilesToUnstage(selectedFiles, stagedFiles) ==
    Keep(stagedFiles, Range(stagedFiles) \ Range(selectedFiles))

\* Faulty variant: the count is taken to be positive whatever was selected.
FinalStagedCountPositive(selectedFiles) == 1

\* What handleFileStaging returns once the staging area was changed.
FinalStagedCount(selectedFiles) == Len(selectedFiles)

\* GitService.stageFiles(files): one git add per file, in order.
StageCalls(files) ==
    IF Len(files) > 0
    THEN << <<"stageFiles", files>> >>
            \o [i \in DOMAIN files |-> <<"git", "add", files[i]>>]
    ELSE <<>>

\* GitService.unstageFiles(files): one git reset HEAD per file, in order.
UnstageCalls(files) ==
    IF Len(files) > 0
    THEN << <<"unstageFiles", files>> >>
            \o [i \in DOMAIN files |-> <<"git", "reset", files[i]>>]
    ELSE <<>>

\* The log up to and including the n-th git call of the reconciliation.
CallsUpTo(toStage, toUnstage, n) ==
    IF n <= Len(toStage)
    THEN SubSeq(StageCalls(toStage), 1, n + 1)
    ELSE StageCalls(toStage)
            \o SubSeq(UnstageCalls(toUnstage), 1, n - Len(toStage) + 1)

\* PromptService.handleFileStaging after the checkbox: stageFiles is called
\* when there is something to stage, then unstageFiles when there is
\* something to unstage; both run file by file; the first k git calls
\* succeed and, when k is short of all, the next one throws.
SvcReconcile ==
    /\ impl = "services" /\ pc = "svcReconcile"
    /\ LET stagedFiles == StagedOf(modifiedFiles)
           toStage == FilesToStage(selected, stagedFiles)
           toUnstage == FilesToUnstage(selected, stagedFiles)
           calls == [i \in DOMAIN toStage |-> <<"git", "add", toStage[i]>>]
                    \o [i \in DOMAIN toUnstage |->
                           <<"git", "reset", toUnstage[i]>>]
       IN  IF Len(toStage) = 0 /\ Len(toUnstage) = 0
           THEN /\ tree' = tree
                /\ Returns("handleFileStaging", Len(stagedFiles) > 0,
                           << <<"print", "No changes to staging area">> >>)
           ELSE \E k \in 0..Len(calls) :
                   LET done == SubSeq(calls, 1, k)
                       added == {c[3] : c \in {d \in Range(done) : d[2] = "add"}}
                       reset == {c[3] : c \in {d \in Range(done) : d[2] = "reset"}}
                   IN  /\ tree' = GitReset(GitAdd(tree, added), reset)
                       /\ IF k = Len(calls)
                          THEN Returns("handleFileStaging",
                                       FinalStagedCount(selected) > 0,
                                       StageCalls(toStage)
                                           \o UnstageCalls(toUnstage))
                          ELSE Throw(CallsUpTo(toStage, toUnstage, k + 1)
                                     \o << <<"fail", calls[k + 1][2]>> >>)
    /\ UNCHANGED <<impl, options, head, branches, remote, commits,
                   currentBranch, createBranch, unstagedFiles, modifiedFiles,
                   selected, pending, answers, branchFullName, commitMessage,
                   isPublished>>

\* PromptService.promptForCommitDetails: the detailed questions come last.
SvcCommitPrompts(detailed) ==
    << <<"prompt", "type">>, <<"prompt", "description">>,
       <<"prompt", "hasBreaking">> >>
    \o (IF detailed
        THEN << <<"prompt", "scope">>, <<"prompt", "body">>,
                <<"prompt", "footer">> >>
        ELSE <<>>)

PromptForCommitDetails ==
    /\ impl = "services" /\ pc = "svcCommitDetails"
    /\ \E a \in (IF options.detailed THEN DetailedAnswers ELSE BasicAnswers) :
          /\ answers' = a
          /\ Returns("promptForCommitDetails", TRUE,
                     SvcCommitPrompts(options.detailed))
    /\ UNCHANGED <<impl, options, tree, head, branches, remote, commits,
                   currentBranch, createBranch, unstagedFiles, modifiedFiles,
                   selected, pending, branchFullName, commitMessage,
                   isPublished>>

\* GitService.commit, on the formatted message.
SvcCommit ==
    /\ impl = "services" /\ pc = "svcCommit"
    /\ commitMessage' = FormatCommitMessage(answers, options)
    /\ \E ok \in BOOLEAN :
          /\ CommitEffect(ok, commitMessage')
          /\ IF ok
             THEN Returns("commit", TRUE,
                          << <<"git", "commit">>,
                             <<"print", "Successfully created commit">> >>)
             ELSE Exit1(<< <<"git", "commit">>, <<"fail", "commit">>,
                           <<"error", "Error creating commit">> >>)
    /\ UNCHANGED <<impl, options, head, branches, remote, currentBranch,
                   createBranch, unstagedFiles, modifiedFiles, selected,
                   pending, answers, branchFullName, isPublished>>

IsSuffix(p, s) ==
    Len(p) <= Len(s) /\ SubSeq(s, Len(s) - Len(p) + 1, Len(s)) = p

\* git ls-remote --heads origin <branch>: one line for every head of origin
\* that the pattern matches, the branch itself or a head ending in /<branch>.
LsRemoteHeads(branch) ==
    {r \in remote : r = branch \/ IsSuffix(<<"/">> \o branch, r)}

\* Faulty variant: a failed query is not told from a successful one.
IsBranchPublishedIgnoresFailure(ok, branch) == LsRemoteHeads(branch) # {}

\* GitService.isBranchPublished: result.length > 0, false when the query
\* fails.
IsBranchPublished(ok, branch) ==
    IF ok THEN LsRemoteHeads(branch) # {} ELSE FALSE

\* What isBranchPublished leaves in the log: the query with its output, or
\* the failed query and the error printed.
LsRemote(ok, branch) ==
    IF ok THEN << <<"git", "ls-remote", LsRemoteHeads(branch)>> >>
    ELSE << <<"git", "ls-remote">>, <<"fail", "ls-remote">>,
            <<"error", "Error checking branch status">> >>

\* Faulty variant: the user is asked first, the remote queried afterwards.
PromptForPushAsksFirst ==
    /\ impl = "services" /\ pc = "svcPushPrompt"
    /\ \E ok \in BOOLEAN, shouldPush \in BOOLEAN :
          /\ isPublished' = IsBranchPublished(ok, head)
          /\ Returns("promptForPush", shouldPush,
                     << <<"prompt", "shouldPush", YesNo(shouldPush)>> >>
                     \o LsRemote(ok, head))
    /\ UNCHANGED <<impl, options, tree, head, branches, remote, commits,
                   currentBranch, createBranch, unstagedFiles, modifiedFiles,
                   selected, pending, answers, branchFullName, commitMessage>>

\* PromptService.promptForPush
PromptForPush ==
    /\ impl = "services" /\ pc = "svcPushPrompt"
    /\ \E ok \in BOOLEAN, shouldPush \in BOOLEAN :
          /\ isPublished' = IsBranchPublished(ok, head)
          /\ Returns("promptForPush", shouldPush,
                     LsRemote(ok, head)
                     \o << <<"prompt", "shouldPush", YesNo(shouldPush)>> >>)
    /\ UNCHANGED <<impl, options, tree, head, branches, remote, commits,
                   currentBranch, createBranch, unstagedFiles, modifiedFiles,
                   selected, pending, answers, branchFullName, commitMessage>>

\* The arguments of git.push in GitService.push.
PushCall(published) ==
    IF published THEN <<"git", "push", "origin">>
    ELSE <<"git", "push", "-u", "origin">>

\* GitService.push, with the publish status determined for it.
SvcPush ==
    /\ impl = "services" /\ pc = "svcPush"
    /\ \E lsOk \in BOOLEAN, ok \in BOOLEAN :
          LET published == IsBranchPublished(lsOk, head)
          IN  /\ isPublished' = published
              /\ IF ok
                 THEN /\ remote' = remote \cup {head}
                      /\ Returns("push", TRUE,
                                 LsRemote(lsOk, head) \o <<PushCall(published)>>
                                 \o << <<"print", "Successfully pushed">> >>)
                 ELSE /\ remote' = remote
                      /\ Exit1(LsRemote(lsOk, head) \o <<PushCall(published)>>
                               \o << <<"fail", "push">>,
                                     <<"error", "Error pushing to remote">> >>)
    /\ UNCHANGED <<impl, options, tree, head, branches, commits,
                   currentBranch, createBranch, unstagedFiles, modifiedFiles,
                   selected, pending, answers, branchFullName, commitMessage>>

(***************************************************************************)
(* The entrypoint: generateCommitMessage().catch(console.error).  The      *)
(* rejection is printed; nothing sets an exit code.                        *)
(***************************************************************************)
EntrypointCatch ==
    /\ pc = "thrown"
    /\ Return(<< <<"error", "uncaught">> >>)
    /\ UNCHANGED <<impl, options, tree, head, branches, remote, commits,
                   currentBranch, createBranch, unstagedFiles, modifiedFiles,
                   selected, pending, answers, branchFullName, commitMessage,
                   isPublished>>

(***************************************************************************)
(* The workflow specification.                                             *)
(***************************************************************************)
Init ==
    /\ impl \in {"single", "services"}
    /\ options \in [skipEmoji : BOOLEAN, detailed : BOOLEAN]
    /\ tree \in [Files -> InitKinds]
    /\ head \in InitBranches
    /\ branches = InitBranches
    /\ remote = InitRemote
    /\ commits = <<>>
    /\ pc = "start"
    /\ exitCode = 0
    /\ currentBranch = <<>>
    /\ createBranch = FALSE
    /\ unstagedFiles = <<>>
    /\ modifiedFiles = <<>>
    /\ selected = <<>>
    /\ pending = {}
    /\ answers = NoAnswers
    /\ branchFullName = <<>>
    /\ commitMessage = <<>>
    /\ isPublished = FALSE
    /\ log = <<>>

Next ==
    \/ GetCurrentBranch
    \/ HandleFileStaging
    \/ StagingAction
    \/ StagingSelect
    \/ AddSettles
    \/ BranchDecision
    \/ Questions
    \/ Checkout
    \/ Preview
    \/ Commit
    \/ PushPrompt
    \/ Push
    \/ SvcGetCurrentBranch
    \/ PromptForBranchCreation
    \/ PromptForBranchDetails
    \/ CreateBranch
    \/ SvcHandleFileStaging
    \/ SvcStagingAction
    \/ SvcStagingSelect
    \/ SvcReconcile
    \/ PromptForCommitDetails
    \/ SvcCommit
    \/ PromptForPush
    \/ SvcPush
    \/ EntrypointCatch

Spec == Init /\ [][Next]_vars

(***************************************************************************)
(* The same workflows started with every file changed, untracked or        *)
(* already added: the runs in which there is something to stage and to     *)
(* commit.                                                                 *)
(***************************************************************************)
FlowKinds == {"??", "A "}

FlowInit == Init /\ tree \in [Files -> FlowKinds]

FlowSpec == FlowInit /\ [][Next]_vars

(***************************************************************************)
(* The message builder on its own: the answers and the options are drawn   *)
(* from bounded sets, and the message is built from them.                  *)
(***************************************************************************)
Alphabet == {"x", ":"}

Texts == TextsUpTo(Alphabet, MaxLen)

\* The descriptions typed: free text, one of them a glyph of the emoji table.
Descriptions ==
    (Texts \ {<<>>}) \cup {ExampleAnswers.description, <<"U+2728">>}

FmtAnswers(detailed) ==
    IF detailed
    THEN [type        : CommitTypeValues,
          scope       : Texts \cup {ExampleAnswers.scope},
          description : Descriptions,
          hasBreaking : BOOLEAN,
          body        : Texts \cup {ExampleAnswers.body},
          footer      : Texts \cup {ExampleAnswers.footer}]
    ELSE [type        : CommitTypeValues,
          description : Descriptions,
          hasBreaking : BOOLEAN]

FmtInit ==
    /\ impl = "format"
    /\ options \in [skipEmoji : BOOLEAN, detailed : BOOLEAN]
    /\ answers \in FmtAnswers(options.detailed)
    /\ tree = [f \in Files |-> Clean]
    /\ head = Main
    /\ branches = InitBranches
    /\ remote = InitRemote
    /\ commits = <<>>
    /\ pc = "format"
    /\ exitCode = 0
    /\ currentBranch = <<>>
    /\ createBranch = FALSE
    /\ unstagedFiles = <<>>
    /\ modifiedFiles = <<>>
    /\ selected = <<>>
    /\ pending = {}
    /\ branchFullName = <<>>
    /\ commitMessage = <<>>
    /\ isPublished = FALSE
    /\ log = <<>>

\* generateCommitMessage(): the lines that build commitMessage.
BuildCommitMessage ==
    /\ impl = "format" /\ pc = "format"
    /\ commitMessage' = CommitMessage(answers, options)
    /\ pc' = "formatted"
    /\ UNCHANGED <<impl, options, tree, head, branches, remote, commits,
                   exitCode, currentBranch, createBranch, unstagedFiles,
                   modifiedFiles, selected, pending, answers, branchFullName,
                   isPublished, log>>

FmtNext == BuildCommitMessage

FmtSpec == FmtInit /\ [][FmtNext]_vars

(***************************************************************************)
(* The branch-name prompt on its own: the validate functions of the two    *)
(* branchName questions, inquirer asking again after a rejected input, and *)
(* the branch creation that follows an accepted one.                       *)
(***************************************************************************)
MaxAttempts == 2

Letters == Range(LowerCase) \cup Range(UpperCase)

Digits == {"0", "1", "2", "3", "4", "5", "6", "7", "8", "9"}

\* index.ts, branchName validate: /^[a-z0-9-_]+$/i.  The result "true"
\* stands for true, any other result is the message shown.
ValidateBranchName(input) ==
    IF Len(input) = 0 THEN "Branch name is required"
    ELSE IF \E i \in DOMAIN input :
                input[i] \notin Letters \cup Digits \cup {"-", "_"}
    THEN "Branch name can only contain letters, numbers, hyphens and underscores"
    ELSE "true"

\* Faulty variant: the forward slash is not accepted.
SvcValidateBranchNameNoSlash(input) == ValidateBranchName(input)

\* prompt.ts, branchName validate: /^[a-zA-Z0-9-_/]+$/.
SvcValidateBranchName(input) ==
    IF Len(input) = 0 THEN "Branch name is required"
    ELSE IF \E i \in DOMAIN input :
                input[i] \notin Letters \cup Digits \cup {"-", "_", "/"}
    THEN "Branch name can only contain letters, numbers, hyphens, underscores, and forward slashes"
    ELSE "true"

\* What a user may type at the branchName prompt.
TypedNames ==
    {<<>>, Login, <<"L", "o", "g", "i", "n">>, <<"a", "/", "b">>,
     <<"A", " ", " ", "b">>, <<"a", "_", "1", "-">>, <<"a", ".">>}

\* The inputs rejected so far.
Rejections == Cardinality({i \in DOMAIN log : log[i][1] = "reject"})

\* The run has accepted branch creation and chosen the branch type; the
\* branch name is asked for next.
BranchInit ==
    /\ impl \in {"single", "services"}
    /\ options \in [skipEmoji : BOOLEAN, detailed : {FALSE}]
    /\ tree = [f \in Files |-> "A "]
    /\ head \in {Main, Develop}
    /\ branches = InitBranches
    /\ remote = InitRemote
    /\ commits = <<>>
    /\ pc = "branchName"
    /\ exitCode = 0
    /\ currentBranch = head
    /\ createBranch = TRUE
    /\ unstagedFiles = <<>>
    /\ modifiedFiles = <<>>
    /\ selected = <<>>
    /\ pending = {}
    /\ \E bt \in BranchTypeAnswers :
          answers = NoAnswers @@ [branchType |-> bt, branchName |-> <<>>]
    /\ branchFullName = <<>>
    /\ commitMessage = <<>>
    /\ isPublished = FALSE
    /\ log = <<>>

\* The branchName question: inquirer shows the message of a rejected input
\* and asks again; an accepted input becomes answers.branchName (and, in the
\* services, the formatted name handed to createBranch).
EnterBranchName ==
    /\ pc = "branchName"
    /\ \E input \in TypedNames :
          LET verdict == IF impl = "single" THEN ValidateBranchName(input)
                         ELSE SvcValidateBranchName(input)
          IN  IF verdict = "true"
              THEN /\ answers' = [answers EXCEPT !.branchName = input]
                   /\ IF impl = "single"
                      THEN /\ branchFullName' = branchFullName
                           /\ Goto("checkout", << <<"prompt", "branchName">> >>)
                      ELSE /\ branchFullName' =
                                  FormatBranchName(answers.branchType, input)
                           /\ Returns("promptForBranchDetails", TRUE,
                                      << <<"prompt", "branchName">> >>)
              ELSE /\ Rejections < MaxAttempts
                   /\ UNCHANGED <<answers, branchFullName>>
                   /\ Goto("branchName",
                           << <<"reject", "branchName", input, verdict>> >>)
    /\ UNCHANGED <<impl, options, tree, head, branches, remote, commits,
                   currentBranch, createBranch, unstagedFiles, modifiedFiles,
                   selected, pending, commitMessage, isPublished>>

BranchNext ==
    \/ EnterBranchName
    \/ Checkout
    \/ CreateBranch

BranchSpec == BranchInit /\ [][BranchNext]_vars

(***************************************************************************)
(* The status query on its own: any working tree git can report, partly    *)
(* staged files included, and the list getAllModifiedFiles makes of it.    *)
(***************************************************************************)
StatusInit ==
    /\ impl = "services"
    /\ options \in [skipEmoji : {FALSE}, detailed : {FALSE}]
    /\ tree \in [Files -> AllKinds]
    /\ head = Main
    /\ branches = InitBranches
    /\ remote = InitRemote
    /\ commits = <<>>
    /\ pc = "status"
    /\ exitCode = 0
    /\ currentBranch = head
    /\ createBranch = FALSE
    /\ unstagedFiles = <<>>
    /\ modifiedFiles = <<>>
    /\ selected = <<>>
    /\ pending = {}
    /\ answers = NoAnswers
    /\ branchFullName = <<>>
    /\ commitMessage = <<>>
    /\ isPublished = FALSE
    /\ log = <<>>

\* PromptService.handleFileStaging, its first three lines: the list and its
\* unstaged part (the staged part is StagedOf(modifiedFiles)).
QueryModifiedFiles ==
    /\ pc = "status"
    /\ modifiedFiles' = GetAllModifiedFiles(Status(tree))
    /\ unstagedFiles' = UnstagedOf(modifiedFiles')
    /\ Goto("queried", << <<"git", "status">> >>)
    /\ UNCHANGED <<impl, options, tree, head, branches, remote, commits,
                   currentBranch, createBranch, selected, pending, answers,
                   branchFullName, commitMessage, isPublished>>

StatusNext == QueryModifiedFiles

StatusSpec == StatusInit /\ [][StatusNext]_vars

(***************************************************************************)
(* Reading the log.                                                        *)
(***************************************************************************)
Did(kind, what) ==
    \E i \in DOMAIN log : log[i][1] = kind /\ log[i][2] = what

Answered(question, answer) ==
    \E i \in DOMAIN log :
        /\ log[i][1] = "prompt" /\ log[i][2] = question
        /\ Len(log[i]) = 3 /\ log[i][3] = answer

Is(i, kind, what) == log[i][1] = kind /\ log[i][2] = what

\* The log has an entry of that kind.
Called(kind) == \E i \in DOMAIN log : log[i][1] = kind

\* Where in the log (kind, what) stands.
Positions(kind, what) == {i \in DOMAIN log : Is(i, kind, what)}

\* Every (kind2, what2) in the log has a (kind1, what1) somewhere before it.
NeedsBefore(kind1, what1, kind2, what2) ==
    \A j \in Positions(kind2, what2) :
        \E i \in Positions(kind1, what1) : i < j

\* No (kind1, what1) comes after the first (kind2, what2).
NeverAfter(kind1, what1, kind2, what2) ==
    \A i \in Positions(kind1, what1) :
        \A j \in Positions(kind2, what2) : i < j

\* Nothing is modified and nothing was committed: only a commit makes a file
\* clean, so the run began with nothing modified.
AllClean == commits = <<>> /\ \A f \in Files : tree[f] = Clean

CommitDetailsAsked ==
    Did("prompt", "type") \/ Did("prompt", "description")
        \/ Did("prompt", "hasBreaking")

(***************************************************************************)
(* C1.  When the staging step finds no modified file at all (nothing       *)
(* unstaged, nothing staged), the run ends with exit code 0; with such a   *)
(* tree no commit question is ever asked and no commit is attempted.       *)
(***************************************************************************)
C1_NoFilesCleanExit ==
    AllClean =>
        /\ ~CommitDetailsAsked
        /\ ~Did("git", "commit")
        /\ (Did("call", "handleFileStaging") /\ ~Did("fail", "status")
               => pc = "exited" /\ exitCode = 0)

C1_Witness ==
    /\ AllClean
    /\ Did("print", "No files to commit")
    /\ pc = "exited" /\ exitCode = 0

(***************************************************************************)
(* C2.  On main or master, a user who declines branch creation and then    *)
(* declines the direct commit ends the run with exit code 0; no branch is  *)
(* created and nothing is committed.                                       *)
(***************************************************************************)
C2_DoubleDeclineCleanExit ==
    Answered("confirmContinue", "no") =>
        /\ currentBranch \in MAIN_BRANCHES
        /\ Answered("shouldCreateBranch", "no")
        /\ pc = "exited" /\ exitCode = 0
        /\ ~Did("git", "checkoutLocalBranch")
        /\ ~Did("git", "commit")
        /\ commits = <<>>
        /\ branches = InitBranches
        /\ head = currentBranch

C2_Witness ==
    /\ Answered("confirmContinue", "no")
    /\ head = Master
    /\ pc = "exited"

(***************************************************************************)
(* C3.  A commit is submitted on main or master only after the user said   *)
(* yes to "commit directly to <branch>?"; once branch creation was         *)
(* accepted, a commit is submitted only on the new branch, created and     *)
(* checked out before.                                                     *)
(***************************************************************************)
C3_ProtectedBranchCommit ==
    Did("git", "commit") =>
        /\ head \in MAIN_BRANCHES => Answered("confirmContinue", "yes")
        /\ Answered("shouldCreateBranch", "yes") =>
              /\ head = branchFullName
              /\ head \notin MAIN_BRANCHES
              /\ NeedsBefore("git", "checkoutLocalBranch", "git", "commit")
              /\ ~Did("fail", "checkoutLocalBranch")
        /\ \A i \in DOMAIN commits : commits[i].branch = head

C3_Witness ==
    /\ Did("git", "commit")
    /\ currentBranch \in MAIN_BRANCHES
    /\ Answered("shouldCreateBranch", "yes")
    /\ Len(commits) = 1
    /\ commits[1].branch = Branch(Hotfix, Login)

C3_WitnessDirect ==
    /\ Len(commits) = 1
    /\ commits[1].branch = Main
    /\ Answered("confirmContinue", "yes")

(***************************************************************************)
(* C4.  Staging reconciliation in select mode.  The scenario: files a = 1  *)
(* and b = 2 are unstaged, file c = 3 is staged, nothing else is modified, *)
(* and the checkbox has been answered and acted upon without a git error.  *)
(***************************************************************************)
Reconciled(selectedFiles) ==
    /\ impl = "services"
    /\ pc = "svcCommitDetails"
    /\ UnstagedOf(modifiedFiles) = <<1, 2>>
    /\ StagedOf(modifiedFiles) = <<3>>
    /\ Answered("action", "select")
    /\ selected = selectedFiles

\* C4 as claimed: the selection {b, c} stages b, unstages c and leaves
\* exactly b staged.
C4_SelectBCLeavesB ==
    Reconciled(<<2, 3>>) =>
        /\ Did("stageFiles", <<2>>)
        /\ Did("unstageFiles", <<3>>)
        /\ Indexed(tree) = {2}

\* C4 as amended: it is the selection {b} (b checked, c unchecked) that
\* stages b, unstages c and leaves exactly b staged; the selection {b, c}
\* stages b, unstages nothing and leaves b and c staged.
C4_SelectBLeavesB ==
    /\ Reconciled(<<2>>) =>
          /\ Did("stageFiles", <<2>>)
          /\ Did("unstageFiles", <<3>>)
          /\ Did("git", "reset")
          /\ Indexed(tree) = {2}
    /\ Reconciled(<<2, 3>>) =>
          /\ Did("stageFiles", <<2>>)
          /\ ~Called("unstageFiles")
          /\ ~Did("git", "reset")
          /\ Indexed(tree) = {2, 3}

C4_Witness ==
    /\ Reconciled(<<2>>)
    /\ Did("unstageFiles", <<3>>)
    /\ Indexed(tree) = {2}

(***************************************************************************)
(* C5.  A run in which the status query, the branch creation, the commit   *)
(* or the push failed ends with exit code 1.                               *)
(***************************************************************************)
VcsFailed ==
    \/ Did("fail", "status")
    \/ Did("fail", "checkoutLocalBranch")
    \/ Did("fail", "commit")
    \/ Did("fail", "push")

C5_VcsFailureExitsOne == pc = "exited" /\ VcsFailed => exitCode = 1

(***************************************************************************)
(* C6.  An exception that leaves the workflow function is caught at the    *)
(* entrypoint and reported, and the process exits with a non-zero code.    *)
(***************************************************************************)
C6_UncaughtExitsNonZero ==
    pc = "exited" /\ Did("error", "uncaught") => exitCode # 0

\* The part of C6 that the entrypoint does: the exception is reported.
C6_Reported ==
    pc = "exited" /\ (Did("fail", "add") \/ Did("fail", "reset"))
        /\ impl = "services"
        => Did("error", "uncaught")

MessageBuilt == commitMessage # <<>>

FirstLine == Lines(commitMessage)[1]

Given(field) == field \in DOMAIN answers /\ Len(answers[field]) > 0

\* Where ": <description>" begins when the first line ends with it.
ColonAt == Len(FirstLine) - Len(answers.description) - 1

(***************************************************************************)
(* C8.  The first line of the message is the glyph and a space (unless     *)
(* skip-emoji is set), the type, "(scope)" exactly when a scope is given,  *)
(* "!" exactly when the change is breaking, ": " and the description; the  *)
(* "!" stands immediately before the colon; a message is always built.     *)
(***************************************************************************)
C8_HeaderFormat ==
    pc = "formatted" =>
        /\ MessageBuilt
        /\ FirstLine =
              (IF options.skipEmoji THEN <<>>
               ELSE EMOJI_MAP[answers.type] \o <<" ">>)
              \o answers.type
              \o (IF Given("scope") THEN <<"(">> \o answers.scope \o <<")">>
                  ELSE <<>>)
              \o (IF answers.hasBreaking THEN <<"!">> ELSE <<>>)
              \o <<":", " ">>
              \o answers.description
        /\ ColonAt > 1
        /\ FirstLine[ColonAt] = ":"
        /\ FirstLine[ColonAt + 1] = " "
        /\ answers.hasBreaking <=> FirstLine[ColonAt - 1] = "!"
        /\ Given("scope") <=> FirstLine[ColonAt - (IF answers.hasBreaking
                                                   THEN 2 ELSE 1)] = ")"

C8_Witness ==
    /\ pc = "formatted"
    /\ answers.hasBreaking
    /\ Given("scope")
    /\ ~options.skipEmoji
    /\ answers.description = <<":">>
    /\ FirstLine[ColonAt - 1] = "!"

(***************************************************************************)
(* C9.  After the first line the message holds the body, when one is       *)
(* given, and then the footer, when one is given, each behind one blank    *)
(* line; a field not given adds neither text nor blank line, so no         *)
(* paragraph is empty and the message does not end in a blank line.        *)
(***************************************************************************)
C9_BodyAndFooter ==
    pc = "formatted" =>
        LET lines == Lines(commitMessage)
        IN  /\ Tail(lines) =
                  (IF Given("body") THEN << <<>>, answers.body >> ELSE <<>>)
                  \o (IF Given("footer") THEN << <<>>, answers.footer >>
                      ELSE <<>>)
            /\ lines[Len(lines)] # <<>>
            /\ \A i \in 1..(Len(lines) - 1) :
                  ~(lines[i] = <<>> /\ lines[i + 1] = <<>>)
            /\ Len(lines) = 1 + (IF Given("body") THEN 2 ELSE 0)
                              + (IF Given("footer") THEN 2 ELSE 0)

C9_Witness ==
    /\ pc = "formatted"
    /\ "body" \in DOMAIN answers
    /\ answers.body = <<>>
    /\ Given("footer")
    /\ Len(Lines(commitMessage)) = 3

(***************************************************************************)
(* C10.  The README's example: feat, scope auth, "add OAuth2 support", not *)
(* breaking, body "Implemented OAuth2 flow", footer "Closes #123", glyphs  *)
(* on: the message handed to git commit.                                   *)
(***************************************************************************)
ExampleMessage ==
    <<"U+2728", " ", "f", "e", "a", "t", "(", "a", "u", "t", "h", ")", ":", " ",
      "a", "d", "d", " ", "O", "A", "u", "t", "h", "2", " ",
      "s", "u", "p", "p", "o", "r", "t", NL, NL,
      "I", "m", "p", "l", "e", "m", "e", "n", "t", "e", "d", " ",
      "O", "A", "u", "t", "h", "2", " ", "f", "l", "o", "w", NL, NL,
      "C", "l", "o", "s", "e", "s", " ", "#", "1", "2", "3">>

ExampleAnswered ==
    /\ ~options.skipEmoji
    /\ \A k \in DOMAIN ExampleAnswers :
          k \in DOMAIN answers /\ answers[k] = ExampleAnswers[k]

C10_ExampleMessage ==
    ExampleAnswered =>
        /\ Did("git", "commit") => commitMessage = ExampleMessage
        /\ \A i \in DOMAIN commits : commits[i].message = ExampleMessage

C10_Witness ==
    /\ ExampleAnswered
    /\ impl = "single"
    /\ Len(commits) = 1
    /\ commits[1].message = ExampleMessage

(***************************************************************************)
(* Glyphs of the emoji table inside a text.                                *)
(***************************************************************************)
\* The text holds, somewhere, the code points of a glyph of EMOJI_MAP.
ContainsGlyph(text) ==
    \E t \in DOMAIN EMOJI_MAP :
        \E i \in 1..(Len(text) - Len(EMOJI_MAP[t]) + 1) :
            SubSeq(text, i, i + Len(EMOJI_MAP[t]) - 1) = EMOJI_MAP[t]

\* One of the free-text answers holds a glyph of the table.
AnswersContainGlyph ==
    \E k \in {"scope", "description", "body", "footer"} :
        k \in DOMAIN answers /\ ContainsGlyph(answers[k])

(***************************************************************************)
(* C11.  With skip-emoji set, the commit message holds no glyph of the     *)
(* emoji table, whatever the type and the other answers.                   *)
(***************************************************************************)
\* C11 as claimed: no glyph at all in the message.
C11_NoGlyphAtAll ==
    pc = "formatted" /\ options.skipEmoji => ~ContainsGlyph(commitMessage)

\* C11 as amended: with skip-emoji set no glyph is put in front of the type,
\* and the message holds a glyph of the table exactly when the user typed
\* one into a free-text answer.
C11_NoGlyphAdded ==
    pc = "formatted" /\ options.skipEmoji =>
        /\ SubSeq(commitMessage, 1, Len(answers.type)) = answers.type
        /\ ContainsGlyph(commitMessage) <=> AnswersContainGlyph

C11_Witness ==
    /\ pc = "formatted"
    /\ options.skipEmoji
    /\ answers.type = <<"r", "e", "f", "a", "c", "t", "o", "r">>
    /\ answers.hasBreaking
    /\ ~AnswersContainGlyph
    /\ ~ContainsGlyph(commitMessage)

(***************************************************************************)
(* C12.  Without --detailed only the type, the description and the         *)
(* breaking flag are asked for; scope, body and footer are neither asked   *)
(* for nor present in the answers, and the message is the header line      *)
(* alone, without a scope.  With --detailed scope, body and footer are     *)
(* asked for as well.                                                      *)
(***************************************************************************)
OptionalFields == {"scope", "body", "footer"}

PushedWithUpstream ==
    \E i \in Positions("git", "push") : log[i][3] = "-u"

C13_UpstreamIffUnpublished ==
    Did("git", "push") => (PushedWithUpstream <=> head \notin InitRemote)

\* The part of C13 that GitService.push does: upstream tracking exactly
\* when the publish status handed to it is false.
C13_SvcPushFollowsStatus ==
    impl = "services" /\ Did("git", "push") =>
        (PushedWithUpstream <=> ~isPublished)

\* The single-file workflow pushes a branch it has just created, unknown to
\* origin, with a plain push.
C13_NewBranchPlainPush ==
    /\ impl = "single"
    /\ Did("git", "checkoutLocalBranch")
    /\ head = Branch(Hotfix, Login)
    /\ head \notin InitRemote
    /\ Did("print", "Successfully pushed")
    /\ ~PushedWithUpstream

(***************************************************************************)
(* C14.  isBranchPublished returns false whenever the remote query fails   *)
(* and true exactly when the query succeeds with non-empty output; a       *)
(* failed query neither ends the run nor reaches the caller as an error.   *)
(* isPublished holds the result of the latest query.                       *)
(***************************************************************************)
LastQuery ==
    CHOOSE i \in Positions("git", "ls-remote") :
        \A j \in Positions("git", "ls-remote") : j <= i

C14_PublishedResult ==
    Did("git", "ls-remote") =>
        /\ pc # "thrown"
        /\ ~Did("error", "uncaught")
        /\ IF Len(log[LastQuery]) = 3
           THEN isPublished <=> log[LastQuery][3] # {}
           ELSE /\ Is(LastQuery + 1, "fail", "ls-remote")
                /\ ~isPublished
                /\ Len(log) >= LastQuery + 3
                /\ \/ Is(LastQuery + 3, "prompt", "shouldPush")
                   \/ Is(LastQuery + 3, "git", "push")

C14_Witness ==
    /\ Did("fail", "ls-remote")
    /\ head \in remote
    /\ head = Main
    /\ ~isPublished
    /\ Answered("shouldPush", "yes")
    /\ pc = "svcPush"

(***************************************************************************)
(* C15.  The push decision: the question, the remote query, the push.      *)
(***************************************************************************)
\* C15 as claimed: the user is asked first and the publish status is
\* determined only after a yes; after a no there is neither a remote query
\* nor a push.
C15_AskThenQuery ==
    /\ NeedsBefore("prompt", "shouldPush", "git", "ls-remote")
    /\ Did("git", "ls-remote") => Answered("shouldPush", "yes")
    /\ Answered("shouldPush", "no") =>
          ~Did("git", "ls-remote") /\ ~Did("git", "push")

\* C15 as amended: promptForPush determines the publish status first and
\* asks afterwards, so the remote is queried whatever the answer; the
\* single-file workflow asks without any query.  In both, a push is made
\* only after a yes; after a no nothing is pushed and origin is unchanged.
C15_QueryThenAsk ==
    /\ impl = "services" =>
          NeedsBefore("git", "ls-remote", "prompt", "shouldPush")
    /\ impl = "single" => ~Did("git", "ls-remote")
    /\ NeedsBefore("prompt", "shouldPush", "git", "push")
    /\ Did("git", "push") => Answered("shouldPush", "yes")
    /\ Answered("shouldPush", "no") =>
          /\ ~Did("git", "push")
          /\ remote = InitRemote
          /\ pc = "exited" /\ exitCode = 0

C15_Witness ==
    /\ impl = "services"
    /\ Answered("shouldPush", "no")
    /\ Did("git", "ls-remote")
    /\ ~Did("fail", "ls-remote")
    /\ Len(commits) = 1
    /\ pc = "exited"

(***************************************************************************)
(* C16.  Which branch names are accepted, and what becomes of a rejected   *)
(* one.                                                                    *)
(***************************************************************************)
\* A non-empty text of letters, digits, hyphens, underscores and the extra
\* characters given.
WellFormedName(name, extra) ==
    /\ name # <<>>
    /\ \A i \in DOMAIN name :
          name[i] \in Letters \cup Digits \cup {"-", "_"} \cup extra

RejectedNames == {log[i][3] : i \in Positions("reject", "branchName")}

NameAccepted == Did("prompt", "branchName")

\* A rejected input leaves the run at the question, and what is handed to
\* the branch creation is made of the accepted name.
RejectedNamesGoNowhere ==
    /\ ~Did("git", "checkoutLocalBranch") =>
          pc \notin {"exited", "thrown"} /\ exitCode = 0
    /\ ~NameAccepted => pc = "branchName" /\ branchFullName = <<>>
    /\ NameAccepted => answers.branchName \notin RejectedNames
    /\ Did("git", "checkoutLocalBranch") =>
          /\ NameAccepted
          /\ branchFullName \in
                {Branch(answers.branchType, answers.branchName),
                 FormatBranchName(answers.branchType, answers.branchName)}

\* C16 as claimed: in either workflow a name is accepted exactly when it is
\* non-empty and made of letters, digits, hyphens, underscores and forward
\* slashes; a rejected name is asked for again and never reaches the branch
\* creation, and the run goes on.
C16_SlashAccepted ==
    /\ \A name \in RejectedNames : ~WellFormedName(name, {"/"})
    /\ NameAccepted => WellFormedName(answers.branchName, {"/"})
    /\ RejectedNamesGoNowhere

\* C16 as amended: that is the rule of promptForBranchDetails; the
\* single-file workflow's question accepts no forward slash.
C16_AcceptedNames ==
    LET extra == IF impl = "services" THEN {"/"} ELSE {}
    IN  /\ \A name \in RejectedNames : ~WellFormedName(name, extra)
        /\ NameAccepted => WellFormedName(answers.branchName, extra)
        /\ RejectedNamesGoNowhere

C16_Witness ==
    /\ impl = "services"
    /\ RejectedNames = {<<>>, <<"A", " ", " ", "b">>}
    /\ answers.branchName = <<"a", "/", "b">>
    /\ head = <<"h", "o", "t", "f", "i", "x", "/", "a", "/", "b">>

\* The single-file workflow rejects a name with a forward slash.
C16_WitnessSingle ==
    /\ impl = "single"
    /\ <<"a", "/", "b">> \in RejectedNames
    /\ head = Branch(Hotfix, <<"a", "_", "1", "-">>)

(***************************************************************************)
(* C17.  The name handed to the branch creation is the branch type, a      *)
(* slash and the entered name normalised: lower-cased, every run of        *)
(* whitespace turned into one hyphen.                                      *)
(***************************************************************************)
AddNewThing ==
    <<"A", "d", "d", " ", "N", "e", "w", " ", "T", "h", "i", "n", "g">>

C17_NormalizedBranchName ==
    /\ FormatBranchName(Feature, AddNewThing) =
          <<"f", "e", "a", "t", "u", "r", "e", "/", "a", "d", "d", "-",
            "n", "e", "w", "-", "t", "h", "i", "n", "g">>
    /\ Did("git", "checkoutLocalBranch") =>
          /\ branchFullName =
                answers.branchType \o <<"/">> \o Normalize(answers.branchName)
          /\ ~Did("fail", "checkoutLocalBranch") => head = branchFullName

\* The single-file workflow creates a branch whose name keeps the capital
\* letter that was typed.
C17_MixedCaseBranch ==
    /\ impl = "single"
    /\ answers.branchName = <<"L", "o", "g", "i", "n">>
    /\ Did("git", "checkoutLocalBranch")
    /\ head = <<"h", "o", "t", "f", "i", "x", "/", "L", "o", "g", "i", "n">>

\* The part of C17 that holds: the services hand over the formatted name.
C17_SvcFormatted ==
    impl = "services" /\ Did("git", "checkoutLocalBranch") =>
        branchFullName =
            answers.branchType \o <<"/">> \o Normalize(answers.branchName)

(***************************************************************************)
(* C18.  Off main and master the user is offered the creation of a branch, *)
(* and the offer's default is to decline.                                  *)
(***************************************************************************)
\* The branch decision is behind the run.
DecisionMade ==
    \/ impl = "single" /\ (pc = "questions" \/ Did("prompt", "type"))
    \/ impl = "services" /\ Did("return", "promptForBranchCreation")

Offered(default) ==
    /\ Did("prompt", "shouldCreateBranch")
    /\ \A i \in Positions("default", "shouldCreateBranch") :
          log[i][3] = default

\* C18 as claimed: every branch other than main and master gets the offer.
C18_OfferedOffMain ==
    DecisionMade /\ currentBranch \notin MAIN_BRANCHES => Offered("no")

\* C18 as amended: promptForBranchCreation makes no offer on a branch whose
\* name begins with a branch type and "/" or "-", and no branch is created
\* then; every other branch off main and master gets the offer, declined by
\* default.
C18_OfferedUnlessTyped ==
    DecisionMade /\ currentBranch \notin MAIN_BRANCHES =>
        IF impl = "services" /\ IsPrefix(Feature \o <<"/">>, currentBranch)
        THEN /\ ~Did("prompt", "shouldCreateBranch")
             /\ ~Did("git", "checkoutLocalBranch")
             /\ ~createBranch
             /\ head = currentBranch
        ELSE Offered("no")

C18_Witness ==
    /\ impl = "services"
    /\ currentBranch = Branch(Feature, Login)
    /\ ~Did("prompt", "shouldCreateBranch")
    /\ Len(commits) = 1
    /\ commits[1].branch = Branch(Feature, Login)

\* Off main, on a branch without a type prefix, the offer is made and may
\* be accepted.
C18_WitnessOffered ==
    /\ currentBranch = Develop
    /\ Offered("no")
    /\ Answered("shouldCreateBranch", "yes")
    /\ head = Branch(Hotfix, Login)

(***************************************************************************)
(* C19.  A failed branch creation ends the run: the error is reported and  *)
(* neither a commit nor a push follows.                                    *)
(***************************************************************************)
C19_FailedCreationAborts ==
    Did("fail", "checkoutLocalBranch") =>
        /\ pc = "exited"
        /\ Did("error", "Error creating branch")
        /\ ~Did("git", "commit")
        /\ ~Did("git", "push")
        /\ ~Did("prompt", "shouldPush")
        /\ commits = <<>>
        /\ remote = InitRemote
        /\ head = currentBranch
        /\ branches = InitBranches

C19_Witness ==
    /\ Did("fail", "checkoutLocalBranch")
    /\ branchFullName = Branch(Feature, Login)
    /\ currentBranch = Main
    /\ Did("error", "Error creating branch")
    /\ pc = "exited"

(***************************************************************************)
(* C20.  Nothing is undone after a partial run: when a branch was created  *)
(* and checked out and the commit or the push then fails, the run ends     *)
(* with the branch in place and checked out; after a failed commit the     *)
(* files the run staged are still staged, after a failed push the commit   *)
(* is still there.                                                         *)
(***************************************************************************)
BranchWasCreated ==
    Did("git", "checkoutLocalBranch") /\ ~Did("fail", "checkoutLocalBranch")

\* The files handed to git add, one by one or all at once.
StagedByRun ==
    {log[i][3] : i \in Positions("git", "add")}
        \cup (IF Did("git", "add .") THEN {f \in Files : tree[f] # Clean}
              ELSE {})

C20_NoCompensation ==
    pc = "exited" /\ BranchWasCreated
        /\ (Did("fail", "commit") \/ Did("fail", "push")) =>
            /\ branchFullName \in branches
            /\ head = branchFullName
            /\ head # currentBranch
            /\ Did("fail", "commit") =>
                  /\ commits = <<>>
                  /\ StagedByRun \subseteq Indexed(tree)
            /\ Did("fail", "push") =>
                  /\ Len(commits) = 1
                  /\ commits[1].branch = branchFullName

C20_Witness ==
    /\ pc = "exited"
    /\ BranchWasCreated
    /\ Did("fail", "commit")
    /\ head = Branch(Hotfix, Login)
    /\ StagedByRun = {1, 2}
    /\ Indexed(tree) = {1, 2, 3}

\* A created branch outlives a failed push as well.
C20_WitnessPush ==
    /\ pc = "exited"
    /\ BranchWasCreated
    /\ Did("fail", "push")
    /\ head = Branch(Hotfix, Login)
    /\ Len(commits) = 1

(***************************************************************************)
(* C21.  The staging step answers true only when the index holds at least  *)
(* one staged file: from a true answer until the commit is attempted the   *)
(* index is not empty, a commit is attempted only after a true answer, and *)
(* once the step has answered with an empty index the run has ended with   *)
(* exit code 0 without a commit question or a commit.                      *)
(***************************************************************************)
StagingReturned(result) ==
    \E i \in Positions("return", "handleFileStaging") : log[i][3] = result

C21_TrueOnlyWithStagedFiles ==
    /\ StagingReturned(TRUE) /\ ~Did("git", "commit") => Indexed(tree) # {}
    /\ Did("git", "commit") => StagingReturned(TRUE)
    /\ (StagingReturned(TRUE) \/ StagingReturned(FALSE))
          /\ ~Did("git", "commit") /\ Indexed(tree) = {}
          => /\ StagingReturned(FALSE)
             /\ pc = "exited" /\ exitCode = 0
             /\ ~CommitDetailsAsked

\* Services: everything staged was unchecked, the index is empty and the
\* run ended cleanly.
C21_Witness ==
    /\ impl = "services"
    /\ Did("git", "reset") /\ ~Did("fail", "reset")
    /\ StagingReturned(FALSE)
    /\ Indexed(tree) = {}
    /\ pc = "exited" /\ exitCode = 0

\* Single-file workflow: the selected files were added and the step
\* answered true.
C21_WitnessTrue ==
    /\ impl = "single"
    /\ Did("git", "add") /\ StagingReturned(TRUE)
    /\ pc = "branchDecision"
    /\ Indexed(tree) # {}

(***************************************************************************)
(* C22.  Single-file workflow, the selected files' adds dispatched         *)
(* together (Promise.all) and none failing: while they settle, in whatever *)
(* order, the staged files and the files still to be added together are    *)
(* the files staged before plus the selected ones; the step answers and    *)
(* the run goes on only when no add is pending, and the index then holds   *)
(* exactly the files staged before plus the selected ones.                 *)
(***************************************************************************)
\* The files the status query of the staging step reported as staged.
SnapshotStaged == UNION {log[i][3] : i \in Positions("status", "staged")}

AddsDispatched ==
    impl = "single" /\ Did("git", "add") /\ ~Did("fail", "add")

C22_GroupedAdds ==
    AddsDispatched =>
        /\ pc = "stagingAdds" =>
              /\ pending # {}
              /\ ~StagingReturned(TRUE)
              /\ ~Did("prompt", "shouldCreateBranch")
              /\ Indexed(tree) \cup pending
                    = SnapshotStaged \cup Range(selected)
        /\ pc # "stagingAdds" =>
              /\ pending = {}
              /\ StagingReturned(TRUE)
              /\ ~Did("git", "commit")
                    => Indexed(tree) = SnapshotStaged \cup Range(selected)

\* Two files were added next to one staged before, and the run went on.
C22_Witness ==
    /\ AddsDispatched
    /\ Len(selected) >= 2
    /\ SnapshotStaged # {}
    /\ pc = "branchDecision"
    /\ pending = {}
    /\ Indexed(tree) = SnapshotStaged \cup Range(selected)

\* One of two dispatched adds has settled, the other has not.
C22_WitnessHalfway ==
    /\ AddsDispatched
    /\ pc = "stagingAdds"
    /\ pending # {} /\ pending # Range(selected)

(***************************************************************************)
(* C23.  Services, select mode.  The checkbox is pre-checked exactly for   *)
(* the files staged at that moment.  Once the step has answered (no git    *)
(* call failed), the files passed to stageFiles, and added, are exactly    *)
(* the selected files that were not staged, the files passed to            *)
(* unstageFiles, and reset, are exactly the staged files that were not     *)
(* selected, no file whose checked state is unchanged is passed to either, *)
(* and the index holds exactly the selection.                              *)
(***************************************************************************)
\* The files handed to the calls of that operation.
PassedTo(op) ==
    UNION {Range(log[i][2]) : i \in {j \in DOMAIN log : log[j][1] = op}}

\* The files of the single git calls of that kind.
GitCalledOn(what) == {log[i][3] : i \in Positions("git", what)}

PreChecked == UNION {log[i][3] : i \in Positions("checked", "selectedFiles")}

SelectAnswered == impl = "services" /\ Did("prompt", "selectedFiles")

C23_SelectReconciles ==
    SelectAnswered =>
        LET staged == Range(StagedOf(modifiedFiles))
            sel == Range(selected)
            unchanged == (staged \cap sel)
                            \cup (Range(AllOf(modifiedFiles)) \ (staged \cup sel))
        IN  /\ PreChecked = staged
            /\ pc = "svcReconcile" => PreChecked = Indexed(tree)
            /\ StagingReturned(TRUE) \/ StagingReturned(FALSE) =>
                  /\ PassedTo("stageFiles") = sel \ staged
                  /\ PassedTo("unstageFiles") = staged \ sel
                  /\ GitCalledOn("add") = sel \ staged
                  /\ GitCalledOn("reset") = staged \ sel
                  /\ unchanged \cap (PassedTo("stageFiles")
                                        \cup PassedTo("unstageFiles")) = {}
                  /\ ~Did("git", "commit") => Indexed(tree) = sel

\* One staged file was unchecked, one unstaged file checked, and one staged
\* file left checked.
C23_Witness ==
    /\ SelectAnswered
    /\ pc = "svcCommitDetails"
    /\ PassedTo("stageFiles") # {}
    /\ PassedTo("unstageFiles") # {}
    /\ Range(selected) \cap Range(StagedOf(modifiedFiles)) # {}
    /\ Indexed(tree) = Range(selected)

(***************************************************************************)
(* C24.  The push question is asked, and a push attempted, only after the  *)
(* run's commit has succeeded: by then the commit exists, git commit was   *)
(* called before the question and did not fail, and the question comes     *)
(* before the push.  After a failed commit, and in a run that ended        *)
(* without one, there is no push question and no push.                     *)
(***************************************************************************)
C24_PushOnlyAfterCommit ==
    /\ Did("prompt", "shouldPush") \/ Did("git", "push") =>
          /\ Len(commits) = 1
          /\ commits[1].branch = head
          /\ ~Did("fail", "commit")
          /\ NeedsBefore("git", "commit", "prompt", "shouldPush")
          /\ NeedsBefore("prompt", "shouldPush", "git", "push")
    /\ Did("fail", "commit")
          \/ (pc \in {"exited", "thrown"} /\ ~Did("git", "commit")) =>
          /\ ~Did("prompt", "shouldPush")
          /\ ~Did("git", "push")

\* A commit was made and pushed.
C24_Witness ==
    /\ Len(commits) = 1
    /\ Answered("shouldPush", "yes")
    /\ Did("git", "push") /\ ~Did("fail", "push")
    /\ head \in remote

\* The commit failed and the run ended without a push question.
C24_WitnessFailed ==
    /\ Did("fail", "commit")
    /\ pc = "exited"
    /\ ~Did("prompt", "shouldPush")

(***************************************************************************)
(* C25.  Single-file workflow.  git commit is called only after the        *)
(* preview was answered yes.  After a no the run has ended with exit code  *)
(* 0, no commit exists, git commit was not called, there is no push        *)
(* question and no push, a branch the run created exists and is checked    *)
(* out, and the files staged before and by the run are still staged.       *)
(***************************************************************************)
C25_PreviewGatesCommit ==
    impl = "single" =>
        /\ Did("git", "commit") =>
              /\ Answered("confirm", "yes")
              /\ NeedsBefore("prompt", "confirm", "git", "commit")
        /\ Answered("confirm", "no") =>
              /\ pc = "exited" /\ exitCode = 0
              /\ commits = <<>>
              /\ ~Did("git", "commit")
              /\ ~Did("prompt", "shouldPush")
              /\ ~Did("git", "push")
              /\ BranchWasCreated =>
                    branchFullName \in branches /\ head = branchFullName
              /\ SnapshotStaged \cup StagedByRun \subseteq Indexed(tree)

\* The preview was declined on a branch the run created, with files the run
\* staged.
C25_Witness ==
    /\ impl = "single"
    /\ Answered("confirm", "no")
    /\ BranchWasCreated /\ head = branchFullName
    /\ Did("git", "add") /\ StagedByRun # {}
    /\ pc = "exited" /\ exitCode = 0

(***************************************************************************)
(* C26.  Every entry of COMMIT_TYPES has its value among the keys of       *)
(* EMOJI_MAP with a glyph that is not empty, and its label begins with     *)
(* that glyph, a space, the value and a colon.  So, with skip-emoji off,   *)
(* the first line of every message begins with the type's glyph, a space   *)
(* and the type, and never with the text "undefined".                      *)
(***************************************************************************)
\* The text up to its first space.
RECURSIVE UpToSpace(_)
UpToSpace(text) ==
    IF text = <<>> \/ Head(text) = " " THEN <<>>
    ELSE <<Head(text)>> \o UpToSpace(Tail(text))

\* The code points the table's glyphs are made of.
GlyphPoints == UNION {Range(EMOJI_MAP[t]) : t \in DOMAIN EMOJI_MAP}

Undefined == <<"u", "n", "d", "e", "f", "i", "n", "e", "d">>

C26_EveryTypeHasGlyph ==
    /\ \A i \in DOMAIN COMMIT_TYPES :
          LET entry == COMMIT_TYPES[i]
          IN  /\ entry.value \in DOMAIN EMOJI_MAP
              /\ EMOJI_MAP[entry.value] # <<>>
              /\ UpToSpace(entry.name) = EMOJI_MAP[entry.value]
              /\ IsPrefix(EMOJI_MAP[entry.value] \o <<" ">> \o entry.value
                              \o <<":">>, entry.name)
    /\ MessageBuilt /\ ~options.skipEmoji =>
          /\ answers.type \in DOMAIN EMOJI_MAP
          /\ FirstLine[1] \in GlyphPoints
          /\ IsPrefix(EMOJI_MAP[answers.type] \o <<" ">> \o answers.type,
                      FirstLine)
          /\ ~IsPrefix(Undefined, FirstLine)

\* A revert message was built with its glyph in front.
C26_Witness ==
    /\ MessageBuilt /\ ~options.skipEmoji
    /\ answers.type = COMMIT_TYPES[Len(COMMIT_TYPES)].value
    /\ FirstLine[1] = "U+23EA" /\ FirstLine[2] = " "

(***************************************************************************)
(* C27.  Whatever the working tree, the list of getAllModifiedFiles has    *)
(* every changed path exactly once: no path twice, and the paths are those *)
(* of not_added, modified, deleted, staged and created together; a path is *)
(* marked staged exactly when it is in staged or created; the staged and   *)
(* the unstaged part of the list are disjoint and together are the list.   *)
(***************************************************************************)
StatusQueried == pc = "queried"

\* The files that stand in more than one list of the status.
InSeveralLists ==
    LET status == Status(tree)
    IN  {f \in Files :
            Cardinality({k \in DOMAIN status : f \in Range(status[k])}) > 1}

C27_EachPathOnce ==
    StatusQueried =>
        LET status == Status(tree)
            files == AllOf(modifiedFiles)
            stagedFiles == StagedOf(modifiedFiles)
        IN  /\ \A i, j \in DOMAIN files : files[i] = files[j] => i = j
            /\ Range(files) = Range(status.not_added) \cup Range(status.modified)
                                 \cup Range(status.deleted)
                                 \cup Range(status.staged)
                                 \cup Range(status.created)
            /\ Range(files) = {f \in Files : tree[f] # Clean}
            /\ \A i \in DOMAIN modifiedFiles :
                  modifiedFiles[i].staged
                      <=> modifiedFiles[i].file
                             \in Range(status.staged) \cup Range(status.created)
            /\ Range(stagedFiles) \cap Range(unstagedFiles) = {}
            /\ Range(stagedFiles) \cup Range(unstagedFiles) = Range(files)
            /\ Len(stagedFiles) + Len(unstagedFiles) = Len(files)

\* A new file staged and then edited stands in modified, staged and created;
\* it is listed once, next to an unstaged file.
C27_Witness ==
    /\ StatusQueried
    /\ \E f \in InSeveralLists : tree[f] = "AM"
    /\ Len(unstagedFiles) > 0
    /\ Len(modifiedFiles) = NumFiles

====
